---- MODULE Spec2Model ----
(***************************************************************************)
(* A model of the ROHF self-consistent-field solver of                     *)
(* src/src/lib/libscf_solver/rohf.cc.                                      *)
(*                                                                         *)
(* Spec      the driver ROHF::compute_energy, one action per statement of  *)
(*           its body, started in the state the constructor leaves.  The   *)
(*           PK and K supermatrices are carried as the arrays form_PK      *)
(*           computes.  The dense matrices whose values come out of a      *)
(*           floating-point diagonalization (densities, G, Fock matrices,  *)
(*           coefficients) are carried by the generation they were         *)
(*           computed from, and the energy each pass computes is any        *)
(*           value of Energies.                                            *)
(*                                                                         *)
(* SpecF     ROHF::form_F on dense matrices with their values.             *)
(* SpecOcc   the occupation selection of form_initial_C and form_C.        *)
(* SpecDiis  the DIIS manager as ROHF::save_fock constructs it.            *)
(* SpecPK    the loop body of ROHF::form_PK on one integral record.        *)
(* SpecG     the two calls of form_PK of compute_energy followed by        *)
(*           ROHF::form_G_from_PK, with the values of all arrays.          *)
(*                                                                         *)
(* Numbers are integers.  Every real number of the program is an integer   *)
(* number of units, and the inputs are chosen so that each multiplication  *)
(* by 0.5 or 0.25 the code performs is exact.                               *)
(***************************************************************************)
EXTENDS Integers, Sequences, FiniteSets, TLC

(***************************************************************************)
(* Bounds of the model.                                                    *)
(***************************************************************************)
\* the largest iteration cap tried; 6 passes are needed for iter % 6 == 0
MaxIter == 6
\* energies are 0 .. MaxE, thresholds 0 .. MaxE + 1
MaxE == 1

Energies == 0 .. MaxE
Thresholds == 0 .. (MaxE + 1)
MaxIterValues == (-1) .. MaxIter
Algorithms == {"PK", "OUT_OF_CORE", "DIRECT", "DF", "CD"}
MinDiisValues == {2, MaxIter + 1}
MaxDiisValues == {1, 2}

Abs(x) == IF x < 0 THEN -x ELSE x
Half(x) == x \div 2
Quarter(x) == x \div 4

(***************************************************************************)
(* The basis of the runs: two irreps with 3 and 1 symmetry orbitals.       *)
(* so2symblk_, so2index_, pk_symoffset_, pk_pairs_ and pk_size_ are        *)
(* computed by the base class from the dimension table.                    *)
(***************************************************************************)
opi == <<3, 1>>
Irreps == 0 .. (Len(opi) - 1)
Dim(h) == opi[h + 1]
nso == Dim(0) + Dim(1)
so2symblk_ == [i \in 0 .. (nso - 1) |-> IF i < Dim(0) THEN 0 ELSE 1]
so2index_ == [i \in 0 .. (nso - 1) |-> IF i < Dim(0) THEN i ELSE i - Dim(0)]
ioff(n) == (n * (n + 1)) \div 2
INDEX2(i, j) == IF i >= j THEN ioff(i) + j ELSE ioff(j) + i
pk_symoffset_ == [h \in Irreps |-> IF h = 0 THEN 0 ELSE ioff(Dim(0))]
pk_pairs_ == ioff(Dim(0)) + ioff(Dim(1))
pk_size_ == ioff(pk_pairs_)
SizeofDouble == 8

\* a null pointer
Null == [x \in {} |-> 0]
ZeroArray == [x \in 0 .. (pk_size_ - 1) |-> 0]

(***************************************************************************)
(* The integral file: records <<i, j, k, l, value>>.  The writer may store *)
(* the label i of a record negated.                                        *)
(***************************************************************************)
IntegralFile ==
    << <<0, 0, 0, 0, 64>>, <<1, 0, 0, 0, 128>>, <<1, 0, 1, 0, 64>>,
       <<1, 1, 0, 0, 128>>, <<2, 1, 1, 0, 64>>, <<2, 1, 2, 0, 128>>,
       <<3, 3, 0, 0, 64>>, <<3, 0, 3, 0, 128>>, <<3, 2, 3, 1, 64>>,
       <<-3, 3, 3, 3, 64>> >>
MemoryValues == {0, 448, 464}

VARIABLES
    algorithm,            \* the configured SCF_TYPE option
    scf_type_,            \* HF::scf_type_
    memory_,              \* HF::memory_, bytes
    maxiter_,             \* HF::maxiter_
    energy_threshold_,    \* HF::energy_threshold_
    diis_enabled_,        \* HF::diis_enabled_
    min_diis_vectors_,    \* HF::min_diis_vectors_
    max_diis_vectors_,    \* HF::max_diis_vectors_
    eri,                  \* the integral file PSIF_SO_TEI
    pk_, k_,              \* ROHF::pk_, ROHF::k_
    pc,                   \* the statement of compute_energy to execute next
    iter, converged, diis_iter,   \* the locals of compute_energy
    E_, Eold_,            \* HF::E_, HF::Eold_
    stamp,                \* what each dense matrix was computed from
    initialized_diis_manager_, diis_subspace,
    B_allocated,          \* the density-fitting tensor of form_B / free_B
    iwl_reads,            \* number of times the integral file was read through
    pk_builds,            \* number of executions of form_PK
    trace,                \* the calls of the current pass of the loop, in order
    outfile, errfile,     \* the output stream and stderr
    chkpt,                \* the records written to the checkpoint file
    ret                   \* the value compute_energy returned

vars == << algorithm, scf_type_, memory_, maxiter_, energy_threshold_,
           diis_enabled_, min_diis_vectors_, max_diis_vectors_, eri, pk_, k_, pc, iter, converged,
           diis_iter, E_, Eold_, stamp, initialized_diis_manager_,
           diis_subspace, B_allocated, iwl_reads, pk_builds, trace, outfile,
           errfile, chkpt, ret >>

config == << algorithm, memory_, maxiter_, energy_threshold_, diis_enabled_,
             min_diis_vectors_, max_diis_vectors_, eri >>

(***************************************************************************)
(* The dense symmetry-blocked matrices, with their values, for the         *)
(* specifications of the matrix routines.  A matrix is a function          *)
(* M[h][i][j] of the irrep h and the row and column within its block.      *)
(***************************************************************************)
VARIABLES
    H_,                   \* HF::H_, the core Hamiltonian
    Dc_, Do_,             \* ROHF::Dc_, ROHF::Do_, the densities
    Gc_, Go_,             \* ROHF::Gc_, ROHF::Go_
    C_,                   \* HF::C_, the orbital coefficients
    Fc_, Fo_, Feff_,      \* ROHF::Fc_, ROHF::Fo_, ROHF::Feff_
    doccpi_, soccpi_,     \* HF::doccpi_, HF::soccpi_
    epsilon_,             \* HF::epsilon_, the orbital energies per irrep
    nalpha_, nbeta_,      \* HF::nalpha_, HF::nbeta_
    nelectron,            \* the number of electrons of the molecule
    occ_calls,            \* the number of calls of find_occupation so far
    occ_previous,         \* doccpi_ and soccpi_ before the last call
    routine               \* the routine that ran last

mvars == << H_, Dc_, Do_, Gc_, Go_, C_, Fc_, Fo_, Feff_ >>
ovars == << doccpi_, soccpi_, epsilon_, nalpha_, nbeta_, nelectron, occ_calls,
            occ_previous >>
numvars == << mvars, ovars, routine >>
allvars == << vars, numvars >>

Rows(h) == 0 .. (Dim(h) - 1)
ZeroMatrix == [h \in Irreps |-> [i \in Rows(h) |-> [j \in Rows(h) |-> 0]]]
ZeroCounts == [h \in Irreps |-> 0]
ZeroVector == [h \in Irreps |-> [i \in Rows(h) |-> 0]]

\* the values the matrices have in a specification that does not use them
NumIdle ==
    /\ H_ = ZeroMatrix /\ Gc_ = ZeroMatrix /\ Go_ = ZeroMatrix
    /\ C_ = ZeroMatrix /\ Fc_ = ZeroMatrix /\ Fo_ = ZeroMatrix
    /\ Feff_ = ZeroMatrix
    /\ Dc_ = ZeroMatrix /\ Do_ = ZeroMatrix
    /\ doccpi_ = ZeroCounts /\ soccpi_ = ZeroCounts
    /\ epsilon_ = ZeroVector
    /\ nalpha_ = 0 /\ nbeta_ = 0 /\ nelectron = 0
    /\ occ_calls = 0
    /\ occ_previous = [docc |-> ZeroCounts, socc |-> ZeroCounts]
    /\ routine = "none"

(***************************************************************************)
(* ROHF::allocate_PK: the arrays are allocated and zeroed when pk_size_    *)
(* is below memory_ / sizeof(double) / 2, otherwise the solver switches to *)
(* the out-of-core algorithm.  operator new throws instead of returning    *)
(* NULL, so the NULL branch of the code is never taken.                    *)
(***************************************************************************)
allocate_PK(mem) ==
    IF pk_size_ < (mem \div SizeofDouble) \div 2
    THEN [scf_type |-> "PK", pk |-> ZeroArray, k |-> ZeroArray,
          out |-> << <<"text", "Allocated PK">>, <<"text", "Allocated K">> >>]
    ELSE [scf_type |-> "OUT_OF_CORE", pk |-> Null, k |-> Null,
          out |-> << <<"text", "Insufficient memory for in-core PK implementation.">>,
                     <<"text", "Switching to out-of-core algorithm.">> >>]

(***************************************************************************)
(* ROHF::ROHF and ROHF::common_init: the state after construction.         *)
(***************************************************************************)
common_init(alg, mem, dis) ==
    LET a == IF alg = "PK" THEN allocate_PK(mem)
             ELSE [scf_type |-> alg, pk |-> Null, k |-> Null, out |-> << >>]
    IN  [scf_type |-> a.scf_type, pk |-> a.pk, k |-> a.k,
         out |-> << <<"DIIS", dis>> >> \o a.out]

InitialStamp ==
    [D |-> -1, Dold |-> -1, G |-> -1, F |-> -1, FC |-> -1, Fdiis |-> FALSE,
     E |-> -1, EF |-> -1, C |-> -1, eps |-> -1, occ |-> -1, diis_ret |-> "none"]

Init ==
    /\ algorithm \in Algorithms
    /\ memory_ \in (IF algorithm = "PK" THEN MemoryValues ELSE {464})
    /\ maxiter_ \in MaxIterValues
    /\ energy_threshold_ \in Thresholds
    /\ diis_enabled_ \in BOOLEAN
    /\ min_diis_vectors_ \in (IF diis_enabled_ THEN MinDiisValues ELSE {2})
    /\ max_diis_vectors_ \in (IF diis_enabled_ THEN MaxDiisValues ELSE {2})
    /\ eri = IntegralFile
    /\ LET c == common_init(algorithm, memory_, diis_enabled_)
       IN  /\ scf_type_ = c.scf_type
           /\ pk_ = c.pk
           /\ k_ = c.k
           /\ outfile = c.out
    /\ pc = "form_H"
    /\ iter = 0
    /\ converged = FALSE
    /\ diis_iter = FALSE
    /\ E_ = 0
    /\ Eold_ = 0
    /\ stamp = InitialStamp
    /\ initialized_diis_manager_ = FALSE
    /\ diis_subspace = << >>
    /\ B_allocated = FALSE
    /\ iwl_reads = 0
    /\ pk_builds = 0
    /\ trace = << >>
    /\ errfile = << >>
    /\ chkpt = << >>
    /\ ret = [returned |-> FALSE, value |-> 0]
    /\ NumIdle

(***************************************************************************)
(* ROHF::form_PK.  One record of the file is sorted into pk_ and k_ by     *)
(* DepositRecord; SortFile runs over the records of the file in order;     *)
(* HalveDiagonal is the closing loop over the pairs.                        *)
(***************************************************************************)
AddAt(a, idx, v) == [a EXCEPT ![idx] = @ + v]

\* mutant: an exchange term gets the weight 0.5 when i = j or k = l
DepositRecordCoulombPairs(s, rec) ==
    LET i == IF rec[1] > 0 THEN rec[1] ELSE -rec[1]
        j == rec[2]
        k == rec[3]
        l == rec[4]
        value == rec[5]
        is == so2symblk_[i]
        js == so2symblk_[j]
        ks == so2symblk_[k]
        ls == so2symblk_[l]
        ii == so2index_[i]
        jj == so2index_[j]
        kk == so2index_[k]
        ll == so2index_[l]
        \* J
        braJ == INDEX2(ii, jj)
        ketJ == INDEX2(kk, ll)
        braketJ == INDEX2(braJ + pk_symoffset_[is], ketJ + pk_symoffset_[ks])
        s1 == IF (is = js) /\ (ks = ls)
              THEN [pk |-> AddAt(s.pk, braketJ, value), k |-> s.k]
              ELSE s
        \* K/2 (2nd sort)
        bra2 == INDEX2(ii, ll)
        ket2 == INDEX2(jj, kk)
        braket2 == INDEX2(bra2 + pk_symoffset_[is], ket2 + pk_symoffset_[js])
        w2 == IF (ii = jj) \/ (kk = ll) THEN Half(value) ELSE Quarter(value)
        s2 == IF (is = js) /\ (ks = ls) /\ (ii # jj) /\ (kk # ll)
                 /\ (is = ls) /\ (js = ks)
              THEN [pk |-> AddAt(s1.pk, braket2, -w2),
                    k |-> AddAt(s1.k, braket2, -w2)]
              ELSE s1
        \* K/2 (1st sort)
        bra1 == INDEX2(ii, kk)
        ket1 == INDEX2(jj, ll)
        braket1 == INDEX2(bra1 + pk_symoffset_[is], ket1 + pk_symoffset_[js])
        w1 == IF (ii = jj) \/ (kk = ll) THEN Half(value) ELSE Quarter(value)
    IN  IF (is = ks) /\ (js = ls)
        THEN [pk |-> AddAt(s2.pk, braket1, -w1), k |-> AddAt(s2.k, braket1, -w1)]
        ELSE s2

\* mutant: the second exchange sort is made whenever its irreps match
DepositRecordUnguarded(s, rec) ==
    LET i == IF rec[1] > 0 THEN rec[1] ELSE -rec[1]
        j == rec[2]
        k == rec[3]
        l == rec[4]
        value == rec[5]
        is == so2symblk_[i]
        js == so2symblk_[j]
        ks == so2symblk_[k]
        ls == so2symblk_[l]
        ii == so2index_[i]
        jj == so2index_[j]
        kk == so2index_[k]
        ll == so2index_[l]
        \* J
        braJ == INDEX2(ii, jj)
        ketJ == INDEX2(kk, ll)
        braketJ == INDEX2(braJ + pk_symoffset_[is], ketJ + pk_symoffset_[ks])
        s1 == IF (is = js) /\ (ks = ls)
              THEN [pk |-> AddAt(s.pk, braketJ, value), k |-> s.k]
              ELSE s
        \* K/2 (2nd sort)
        bra2 == INDEX2(ii, ll)
        ket2 == INDEX2(jj, kk)
        braket2 == INDEX2(bra2 + pk_symoffset_[is], ket2 + pk_symoffset_[js])
        w2 == IF (ii = ll) \/ (jj = kk) THEN Half(value) ELSE Quarter(value)
        s2 == IF (is = ls) /\ (js = ks)
              THEN [pk |-> AddAt(s1.pk, braket2, -w2),
                    k |-> AddAt(s1.k, braket2, -w2)]
              ELSE s1
        \* K/2 (1st sort)
        bra1 == INDEX2(ii, kk)
        ket1 == INDEX2(jj, ll)
        braket1 == INDEX2(bra1 + pk_symoffset_[is], ket1 + pk_symoffset_[js])
        w1 == IF (ii = kk) \/ (jj = ll) THEN Half(value) ELSE Quarter(value)
    IN  IF (is = ks) /\ (js = ls)
        THEN [pk |-> AddAt(s2.pk, braket1, -w1), k |-> AddAt(s2.k, braket1, -w1)]
        ELSE s2

\* the body of the loop over the records of a buffer
DepositRecord(s, rec) ==
    LET i == IF rec[1] > 0 THEN rec[1] ELSE -rec[1]
        j == rec[2]
        k == rec[3]
        l == rec[4]
        value == rec[5]
        is == so2symblk_[i]
        js == so2symblk_[j]
        ks == so2symblk_[k]
        ls == so2symblk_[l]
        ii == so2index_[i]
        jj == so2index_[j]
        kk == so2index_[k]
        ll == so2index_[l]
        \* J
        braJ == INDEX2(ii, jj)
        ketJ == INDEX2(kk, ll)
        braketJ == INDEX2(braJ + pk_symoffset_[is], ketJ + pk_symoffset_[ks])
        s1 == IF (is = js) /\ (ks = ls)
              THEN [pk |-> AddAt(s.pk, braketJ, value), k |-> s.k]
              ELSE s
        \* K/2 (2nd sort)
        bra2 == INDEX2(ii, ll)
        ket2 == INDEX2(jj, kk)
        braket2 == INDEX2(bra2 + pk_symoffset_[is], ket2 + pk_symoffset_[js])
        w2 == IF (ii = ll) \/ (jj = kk) THEN Half(value) ELSE Quarter(value)
        s2 == IF (is = js) /\ (ks = ls) /\ (ii # jj) /\ (kk # ll)
                 /\ (is = ls) /\ (js = ks)
              THEN [pk |-> AddAt(s1.pk, braket2, -w2),
                    k |-> AddAt(s1.k, braket2, -w2)]
              ELSE s1
        \* K/2 (1st sort)
        bra1 == INDEX2(ii, kk)
        ket1 == INDEX2(jj, ll)
        braket1 == INDEX2(bra1 + pk_symoffset_[is], ket1 + pk_symoffset_[js])
        w1 == IF (ii = kk) \/ (jj = ll) THEN Half(value) ELSE Quarter(value)
    IN  IF (is = ks) /\ (js = ls)
        THEN [pk |-> AddAt(s2.pk, braket1, -w1), k |-> AddAt(s2.k, braket1, -w1)]
        ELSE s2

RECURSIVE SortFile(_, _, _)
SortFile(s, file, n) ==
    IF n > Len(file) THEN s
    ELSE SortFile(DepositRecord(s, file[n]), file, n + 1)

HalveDiagonal(a) ==
    [x \in DOMAIN a |->
        IF \E ij \in 0 .. (pk_pairs_ - 1) : x = INDEX2(ij, ij)
        THEN Half(a[x]) ELSE a[x]]

form_PK(pk, k, file) ==
    LET s == SortFile([pk |-> pk, k |-> k], file, 1)
    IN  [pk |-> HalveDiagonal(s.pk), k |-> HalveDiagonal(s.k)]

(***************************************************************************)
(* The pieces of compute_energy that decide its control flow.              *)
(***************************************************************************)
\* mutant: the comparison with the threshold is not strict
test_convergency_le(E, Eold, threshold) ==
    LET ediff == E - Eold
    IN  IF Abs(ediff) <= threshold THEN TRUE ELSE FALSE

\* ROHF::test_convergency
test_convergency(E, Eold, threshold) ==
    LET ediff == E - Eold
    IN  IF Abs(ediff) < threshold THEN TRUE ELSE FALSE

\* mutant: the cap is compared with <=
LoopAgainInclusive(conv, it, maxit) == (~conv) /\ (it <= maxit)

\* the condition of the do ... while loop
LoopAgain(conv, it, maxit) == (~conv) /\ (it < maxit)

\* mutant: the minimum number of vectors is not looked at
DiisEligibleAnyCount(enabled, it, minvec) == (enabled = TRUE) /\ (it % 6 = 0)

\* the condition under which a pass calls diis()
DiisEligible(enabled, it, minvec) == (enabled = TRUE) /\ (it >= minvec) /\ (it % 6 = 0)

\* mutant: the last energy is returned whether or not the run converged
ReturnLastEnergy(conv, E) == E

\* the value of the return statements
ReturnValue(conv, E) == IF conv THEN E ELSE 0

\* mutant: the energy of the pass before is written
save_information_old(E, st) ==
    [etot |-> Eold_, escf |-> Eold_, eref |-> Eold_, clsdpi |-> st.occ,
     openpi |-> st.occ, evals |-> st.eps, scf |-> st.C,
     Feff |-> <<st.F, st.FC, st.Fdiis>>]

\* the checkpoint record ROHF::save_information writes
save_information(E, st) ==
    [etot |-> E, escf |-> E, eref |-> E, clsdpi |-> st.occ, openpi |-> st.occ,
     evals |-> st.eps, scf |-> st.C, Feff |-> <<st.F, st.FC, st.Fdiis>>]

Step(name) == trace' = Append(trace, name)

(***************************************************************************)
(* compute_energy, before the loop.                                        *)
(***************************************************************************)
FormH ==
    /\ pc = "form_H"
    /\ pc' = "integrals"
    /\ UNCHANGED << numvars, algorithm, scf_type_, memory_, maxiter_, energy_threshold_,
                    diis_enabled_, min_diis_vectors_, max_diis_vectors_, eri, pk_, k_, iter,
                    converged, diis_iter, E_, Eold_, stamp,
                    initialized_diis_manager_, diis_subspace, B_allocated,
                    iwl_reads, pk_builds, trace, outfile, errfile, chkpt, ret >>

\* if (scf_type_ == "PK") form_PK(); else if (scf_type_ == "DF") form_B();
FormIntegrals ==
    /\ pc = "integrals"
    /\ pc' = "integrals_again"
    /\ IF scf_type_ = "PK"
       THEN LET r == form_PK(pk_, k_, eri)
            IN  /\ pk_' = r.pk
                /\ k_' = r.k
                /\ iwl_reads' = iwl_reads + 1
                /\ pk_builds' = pk_builds + 1
                /\ outfile' = outfile \o << <<"text", "Forming PK and K matrices.">>,
                                            <<"processed", Len(eri)>> >>
                /\ UNCHANGED B_allocated
       ELSE /\ B_allocated' = (scf_type_ = "DF")
            /\ UNCHANGED << pk_, k_, iwl_reads, pk_builds, outfile >>
    /\ UNCHANGED << numvars, algorithm, scf_type_, memory_, maxiter_, energy_threshold_,
                    diis_enabled_, min_diis_vectors_, max_diis_vectors_, eri, iter, converged,
                    diis_iter, E_, Eold_, stamp, initialized_diis_manager_,
                    diis_subspace, trace, errfile, chkpt, ret >>

\* if (scf_type_ == "PK") form_PK();
FormIntegralsAgain ==
    /\ pc = "integrals_again"
    /\ pc' = "form_Shalf"
    /\ IF scf_type_ = "PK"
       THEN LET r == form_PK(pk_, k_, eri)
            IN  /\ pk_' = r.pk
                /\ k_' = r.k
                /\ iwl_reads' = iwl_reads + 1
                /\ pk_builds' = pk_builds + 1
                /\ outfile' = outfile \o << <<"text", "Forming PK and K matrices.">>,
                                            <<"processed", Len(eri)>> >>
       ELSE UNCHANGED << pk_, k_, iwl_reads, pk_builds, outfile >>
    /\ UNCHANGED << numvars, algorithm, scf_type_, memory_, maxiter_, energy_threshold_,
                    diis_enabled_, min_diis_vectors_, max_diis_vectors_, eri, iter, converged,
                    diis_iter, E_, Eold_, stamp, initialized_diis_manager_,
                    diis_subspace, B_allocated, trace, errfile, chkpt, ret >>

FormShalf ==
    /\ pc = "form_Shalf"
    /\ pc' = "initial_C"
    /\ UNCHANGED << numvars, algorithm, scf_type_, memory_, maxiter_, energy_threshold_,
                    diis_enabled_, min_diis_vectors_, max_diis_vectors_, eri, pk_, k_, iter,
                    converged, diis_iter, E_, Eold_, stamp,
                    initialized_diis_manager_, diis_subspace, B_allocated,
                    iwl_reads, pk_builds, trace, outfile, errfile, chkpt, ret >>

(***************************************************************************)
(* load_or_compute_initial_C of the base class: orbitals, occupations and  *)
(* densities of generation 0 and the energy that belongs to them, either   *)
(* read from the checkpoint file or computed from the core Hamiltonian     *)
(* (compute_initial_E, which prints the energy it returns); then the       *)
(* header of the iteration table.                                          *)
(***************************************************************************)
\* ROHF::compute_initial_E returns the energy Etotal it printed
compute_initial_E(Etotal) == Etotal

LoadOrComputeInitialC ==
    /\ pc = "initial_C"
    /\ pc' = "loop"
    /\ \E e \in Energies, read \in BOOLEAN :
          /\ E_' = e
          /\ outfile' = outfile
                 \o (IF read THEN << <<"text", "Read in previous MOs from file32.">> >>
                     ELSE << <<"initial", compute_initial_E(e)>> >>)
                 \o << <<"text", "Total Energy  Delta E  Density RMS">> >>
    /\ stamp' = [stamp EXCEPT !.C = 0, !.eps = 0, !.occ = 0, !.D = 0, !.E = 0]
    /\ UNCHANGED << numvars, algorithm, scf_type_, memory_, maxiter_, energy_threshold_,
                    diis_enabled_, min_diis_vectors_, max_diis_vectors_, eri, pk_, k_, iter,
                    converged, diis_iter, Eold_, initialized_diis_manager_,
                    diis_subspace, B_allocated, iwl_reads, pk_builds, trace,
                    errfile, chkpt, ret >>

(***************************************************************************)
(* compute_energy, one pass of the do ... while loop.                      *)
(***************************************************************************)
\* iter++; Dc_old_->copy(Dc_); Do_old_->copy(Do_); Eold_ = E_;
SavePrevious ==
    /\ pc = "loop"
    /\ pc' = "form_G"
    /\ iter' = iter + 1
    /\ stamp' = [stamp EXCEPT !.Dold = stamp.D]
    /\ Eold_' = E_
    /\ trace' = << "save_previous" >>
    /\ UNCHANGED << numvars, algorithm, scf_type_, memory_, maxiter_, energy_threshold_,
                    diis_enabled_, min_diis_vectors_, max_diis_vectors_, eri, pk_, k_, converged,
                    diis_iter, E_, initialized_diis_manager_, diis_subspace,
                    B_allocated, iwl_reads, pk_builds, outfile, errfile, chkpt,
                    ret >>

\* mutant: the direct algorithm is passed over without a G build
GBuildSkipsDirect(type) ==
    IF type = "PK" THEN "form_G_from_PK"
    ELSE IF type \in {"DF", "CD", "1C_CD"} THEN "form_G_from_RI"
    ELSE IF type = "OUT_OF_CORE" THEN "form_G"
    ELSE "none"

\* mutant: the density-fitted algorithms have no branch in the chain
GBuildWithoutRI(type) ==
    IF type = "PK" THEN "form_G_from_PK"
    ELSE IF type = "DIRECT" THEN "form_G_from_direct_integrals"
    ELSE IF type = "OUT_OF_CORE" THEN "form_G"
    ELSE "none"

\* the outcome of the if / else if chain that builds Gc_ and Go_
GBuild(type) ==
    IF type = "PK" THEN "form_G_from_PK"
    ELSE IF type = "DIRECT" THEN "form_G_from_direct_integrals"
    ELSE IF type \in {"DF", "CD", "1C_CD"} THEN "form_G_from_RI"
    ELSE IF type = "OUT_OF_CORE" THEN "form_G"
    ELSE "none"

\* mutant: the G build scales the diagonal of the supermatrices in place
FormGScalingPK ==
    /\ pc = "form_G"
    /\ LET g == GBuild(scf_type_)
       IN  /\ Step(g)
           /\ IF g \in {"form_G_from_PK", "form_G_from_RI"}
              THEN /\ stamp' = [stamp EXCEPT !.G = stamp.D]
                   /\ pc' = "form_F"
                   /\ UNCHANGED errfile
                   /\ pk_' = (IF g = "form_G_from_PK" THEN HalveDiagonal(pk_) ELSE pk_)
                   /\ k_' = (IF g = "form_G_from_PK" THEN HalveDiagonal(k_) ELSE k_)
              ELSE IF g = "form_G_from_direct_integrals"
              THEN /\ errfile' = Append(errfile,
                          "ROHF integral direct algorithm is not implemented yet!")
                   /\ pc' = "aborted"
                   /\ UNCHANGED << stamp, pk_, k_ >>
              ELSE IF g = "form_G"
              THEN /\ errfile' = Append(errfile,
                          "ROHF out-of-core algorithm is not implemented yet!")
                   /\ pc' = "aborted"
                   /\ UNCHANGED << stamp, pk_, k_ >>
              ELSE /\ pc' = "form_F"
                   /\ UNCHANGED << stamp, errfile, pk_, k_ >>
    /\ UNCHANGED << numvars, algorithm, scf_type_, memory_, maxiter_, energy_threshold_,
                    diis_enabled_, min_diis_vectors_, max_diis_vectors_, eri, iter,
                    converged, diis_iter, E_, Eold_, initialized_diis_manager_,
                    diis_subspace, B_allocated, iwl_reads, pk_builds, outfile,
                    chkpt, ret >>

\* form_G_from_PK and form_G_from_RI rebuild Gc_ and Go_ from Dc_ and Do_;
\* form_G_from_direct_integrals and form_G print to stderr and abort().
FormG ==
    /\ pc = "form_G"
    /\ LET g == GBuild(scf_type_)
       IN  /\ Step(g)
           /\ IF g \in {"form_G_from_PK", "form_G_from_RI"}
              THEN /\ stamp' = [stamp EXCEPT !.G = stamp.D]
                   /\ pc' = "form_F"
                   /\ UNCHANGED errfile
              ELSE IF g = "form_G_from_direct_integrals"
              THEN /\ errfile' = Append(errfile,
                          "ROHF integral direct algorithm is not implemented yet!")
                   /\ pc' = "aborted"
                   /\ UNCHANGED stamp
              ELSE IF g = "form_G"
              THEN /\ errfile' = Append(errfile,
                          "ROHF out-of-core algorithm is not implemented yet!")
                   /\ pc' = "aborted"
                   /\ UNCHANGED stamp
              ELSE /\ pc' = "form_F"
                   /\ UNCHANGED << stamp, errfile >>
    /\ UNCHANGED << numvars, algorithm, scf_type_, memory_, maxiter_, energy_threshold_,
                    diis_enabled_, min_diis_vectors_, max_diis_vectors_, eri, pk_, k_, iter,
                    converged, diis_iter, E_, Eold_, initialized_diis_manager_,
                    diis_subspace, B_allocated, iwl_reads, pk_builds, outfile,
                    chkpt, ret >>

\* form_F(): Fc_, Fo_ from H_ and Gc_, Go_; Feff_ in the basis of C_
FormF ==
    /\ pc = "form_F"
    /\ pc' = "save_fock"
    /\ Step("form_F")
    /\ stamp' = [stamp EXCEPT !.F = stamp.G, !.FC = stamp.C, !.Fdiis = FALSE]
    /\ UNCHANGED << numvars, algorithm, scf_type_, memory_, maxiter_, energy_threshold_,
                    diis_enabled_, min_diis_vectors_, max_diis_vectors_, eri, pk_, k_, iter,
                    converged, diis_iter, E_, Eold_, initialized_diis_manager_,
                    diis_subspace, B_allocated, iwl_reads, pk_builds, outfile,
                    errfile, chkpt, ret >>

\* mutant: save_fock adds the current Feff_ to the subspace on every call
SaveFockAppending ==
    /\ pc = "save_fock"
    /\ pc' = "compute_E"
    /\ IF diis_enabled_
       THEN /\ Step("save_fock")
            /\ initialized_diis_manager_' = TRUE
            /\ diis_subspace' = Append(diis_subspace, [order |-> iter, err |-> 0])
       ELSE UNCHANGED << trace, initialized_diis_manager_, diis_subspace >>
    /\ UNCHANGED << numvars, algorithm, scf_type_, memory_, maxiter_, energy_threshold_,
                    diis_enabled_, min_diis_vectors_, max_diis_vectors_, eri, pk_, k_, iter,
                    converged, diis_iter, E_, Eold_, stamp,
                    B_allocated, iwl_reads, pk_builds, outfile, errfile, chkpt,
                    ret >>

\* if (diis_enabled_) save_fock();  save_fock creates the DIIS manager on its
\* first call and adds nothing to the subspace.
SaveFock ==
    /\ pc = "save_fock"
    /\ pc' = "compute_E"
    /\ IF diis_enabled_
       THEN /\ Step("save_fock")
            /\ initialized_diis_manager_' = TRUE
       ELSE UNCHANGED << trace, initialized_diis_manager_ >>
    /\ UNCHANGED << numvars, algorithm, scf_type_, memory_, maxiter_, energy_threshold_,
                    diis_enabled_, min_diis_vectors_, max_diis_vectors_, eri, pk_, k_, iter,
                    converged, diis_iter, E_, Eold_, stamp, diis_subspace,
                    B_allocated, iwl_reads, pk_builds, outfile, errfile, chkpt,
                    ret >>

\* E_ = compute_E(): the energy of the current densities and Fock matrices
ComputeE ==
    /\ pc = "compute_E"
    /\ pc' = "diis"
    /\ Step("compute_E")
    /\ \E e \in Energies : E_' = e
    /\ stamp' = [stamp EXCEPT !.E = stamp.D, !.EF = stamp.F]
    /\ UNCHANGED << numvars, algorithm, scf_type_, memory_, maxiter_, energy_threshold_,
                    diis_enabled_, min_diis_vectors_, max_diis_vectors_, eri, pk_, k_, iter,
                    converged, diis_iter, Eold_, initialized_diis_manager_,
                    diis_subspace, B_allocated, iwl_reads, pk_builds, outfile,
                    errfile, chkpt, ret >>

\* DIISManager::extrapolate(1, Feff_) of the DIIS library: when the system of
\* the subspace can be solved Feff_ is replaced by the extrapolated matrix and
\* true is returned, otherwise Feff_ is left as it is and false is returned
extrapolate(st, ok) == [st EXCEPT !.Fdiis = ok, !.diis_ret = ok]

\* ROHF::diis
diis(st, ok) == extrapolate(st, ok)

\* mutant: a failed extrapolation ends the run
DiisEscalates ==
    /\ pc = "diis"
    /\ IF DiisEligible(diis_enabled_, iter, min_diis_vectors_)
       THEN /\ Step("diis")
            /\ \E ok \in BOOLEAN :
                  /\ stamp' = diis(stamp, ok)
                  /\ pc' = IF ok THEN "print" ELSE "aborted"
            /\ diis_iter' = TRUE
       ELSE /\ diis_iter' = FALSE
            /\ pc' = "print"
            /\ stamp' = [stamp EXCEPT !.diis_ret = "none"]
            /\ UNCHANGED trace
    /\ UNCHANGED << numvars, algorithm, scf_type_, memory_, maxiter_, energy_threshold_,
                    diis_enabled_, min_diis_vectors_, max_diis_vectors_, eri, pk_, k_, iter,
                    converged, E_, Eold_, initialized_diis_manager_,
                    diis_subspace, B_allocated, iwl_reads, pk_builds, outfile,
                    errfile, chkpt, ret >>

\* if (diis_enabled_ == true && iter >= min_diis_vectors_ && iter % 6 == 0)
\*     { diis(); diis_iter = true; } else { diis_iter = false; }
\* The value diis() returns is not looked at; stamp.diis_ret keeps it for the
\* properties ("none" in a pass that does not call diis()).
Diis ==
    /\ pc = "diis"
    /\ pc' = "print"
    /\ IF DiisEligible(diis_enabled_, iter, min_diis_vectors_)
       THEN /\ Step("diis")
            /\ \E ok \in BOOLEAN : stamp' = diis(stamp, ok)
            /\ diis_iter' = TRUE
       ELSE /\ diis_iter' = FALSE
            /\ stamp' = [stamp EXCEPT !.diis_ret = "none"]
            /\ UNCHANGED trace
    /\ UNCHANGED << numvars, algorithm, scf_type_, memory_, maxiter_, energy_threshold_,
                    diis_enabled_, min_diis_vectors_, max_diis_vectors_, eri, pk_, k_, iter,
                    converged, E_, Eold_, initialized_diis_manager_,
                    diis_subspace, B_allocated, iwl_reads, pk_builds, outfile,
                    errfile, chkpt, ret >>

\* fprintf(outfile, "  @ROHF iteration %3d energy: ...", iter, E_, E_ - Eold_, ...)
PrintIteration ==
    /\ pc = "print"
    /\ pc' = "diagonalize"
    /\ outfile' = Append(outfile, <<"iteration", iter, E_, E_ - Eold_, diis_iter>>)
    /\ UNCHANGED << numvars, algorithm, scf_type_, memory_, maxiter_, energy_threshold_,
                    diis_enabled_, min_diis_vectors_, max_diis_vectors_, eri, pk_, k_, iter,
                    converged, diis_iter, E_, Eold_, stamp,
                    initialized_diis_manager_, diis_subspace, B_allocated,
                    iwl_reads, pk_builds, trace, errfile, chkpt, ret >>

\* mutant: form_C goes from the diagonalization straight to the new C_
DiagonalizeOnly ==
    /\ pc = "diagonalize"
    /\ pc' = "gemm"
    /\ Step("diagonalize")
    /\ stamp' = [stamp EXCEPT !.eps = iter]
    /\ UNCHANGED << numvars, algorithm, scf_type_, memory_, maxiter_, energy_threshold_,
                    diis_enabled_, min_diis_vectors_, max_diis_vectors_, eri, pk_, k_, iter,
                    converged, diis_iter, E_, Eold_, initialized_diis_manager_,
                    diis_subspace, B_allocated, iwl_reads, pk_builds, outfile,
                    errfile, chkpt, ret >>

\* form_C(), first statement: Feff_->diagonalize(eigvec, epsilon_)
Diagonalize ==
    /\ pc = "diagonalize"
    /\ pc' = "find_occupation"
    /\ Step("diagonalize")
    /\ stamp' = [stamp EXCEPT !.eps = iter]
    /\ UNCHANGED << numvars, algorithm, scf_type_, memory_, maxiter_, energy_threshold_,
                    diis_enabled_, min_diis_vectors_, max_diis_vectors_, eri, pk_, k_, iter,
                    converged, diis_iter, E_, Eold_, initialized_diis_manager_,
                    diis_subspace, B_allocated, iwl_reads, pk_builds, outfile,
                    errfile, chkpt, ret >>

\* form_C(), second statement: find_occupation(*epsilon_.get())
FindOccupation ==
    /\ pc = "find_occupation"
    /\ pc' = "gemm"
    /\ Step("find_occupation")
    /\ stamp' = [stamp EXCEPT !.occ = stamp.eps]
    /\ UNCHANGED << numvars, algorithm, scf_type_, memory_, maxiter_, energy_threshold_,
                    diis_enabled_, min_diis_vectors_, max_diis_vectors_, eri, pk_, k_, iter,
                    converged, diis_iter, E_, Eold_, initialized_diis_manager_,
                    diis_subspace, B_allocated, iwl_reads, pk_builds, outfile,
                    errfile, chkpt, ret >>

\* form_C(), the rest: temp->gemm(..., C_, eigvec, ...); C_->copy(temp)
RebuildC ==
    /\ pc = "gemm"
    /\ pc' = "form_D"
    /\ Step("gemm")
    /\ stamp' = [stamp EXCEPT !.C = stamp.eps]
    /\ UNCHANGED << numvars, algorithm, scf_type_, memory_, maxiter_, energy_threshold_,
                    diis_enabled_, min_diis_vectors_, max_diis_vectors_, eri, pk_, k_, iter,
                    converged, diis_iter, E_, Eold_, initialized_diis_manager_,
                    diis_subspace, B_allocated, iwl_reads, pk_builds, outfile,
                    errfile, chkpt, ret >>

\* form_D(): Dc_ and Do_ from C_, doccpi_ and soccpi_
FormD ==
    /\ pc = "form_D"
    /\ pc' = "test_convergency"
    /\ Step("form_D")
    /\ stamp' = [stamp EXCEPT !.D = stamp.C]
    /\ UNCHANGED << numvars, algorithm, scf_type_, memory_, maxiter_, energy_threshold_,
                    diis_enabled_, min_diis_vectors_, max_diis_vectors_, eri, pk_, k_, iter,
                    converged, diis_iter, E_, Eold_, initialized_diis_manager_,
                    diis_subspace, B_allocated, iwl_reads, pk_builds, outfile,
                    errfile, chkpt, ret >>

\* converged = test_convergency(); } while (!converged && iter < maxiter_);
TestConvergency ==
    /\ pc = "test_convergency"
    /\ Step("test_convergency")
    /\ converged' = test_convergency(E_, Eold_, energy_threshold_)
    /\ pc' = IF LoopAgain(converged', iter, maxiter_) THEN "loop" ELSE "free_B"
    /\ UNCHANGED << numvars, algorithm, scf_type_, memory_, maxiter_, energy_threshold_,
                    diis_enabled_, min_diis_vectors_, max_diis_vectors_, eri, pk_, k_, iter,
                    diis_iter, E_, Eold_, stamp, initialized_diis_manager_,
                    diis_subspace, B_allocated, iwl_reads, pk_builds, outfile,
                    errfile, chkpt, ret >>

(***************************************************************************)
(* compute_energy, after the loop.                                         *)
(***************************************************************************)
\* if (scf_type_ == "DF" || scf_type_ == "CD" || scf_type_ == "1C_CD") free_B();
FreeB ==
    /\ pc = "free_B"
    /\ pc' = "return"
    /\ B_allocated' = IF scf_type_ \in {"DF", "CD", "1C_CD"} THEN FALSE
                      ELSE B_allocated
    /\ UNCHANGED << numvars, algorithm, scf_type_, memory_, maxiter_, energy_threshold_,
                    diis_enabled_, min_diis_vectors_, max_diis_vectors_, eri, pk_, k_, iter,
                    converged, diis_iter, E_, Eold_, stamp,
                    initialized_diis_manager_, diis_subspace, iwl_reads,
                    pk_builds, trace, outfile, errfile, chkpt, ret >>

\* mutant: a converged run computes the energy of the final densities
\* before it writes and returns it
ReturnRecomputing ==
    /\ pc = "return"
    /\ IF converged
       THEN /\ \E e \in Energies : E_' = e
            /\ stamp' = [stamp EXCEPT !.E = stamp.D, !.EF = stamp.F]
            /\ outfile' = outfile \o << <<"text", "Energy converged.">>,
                                        <<"occupations", stamp.occ>> >>
            /\ chkpt' = Append(chkpt, save_information(E_', stamp'))
            /\ pc' = "Converged"
       ELSE /\ outfile' = Append(outfile, <<"text", "Failed to converge.">>)
            /\ UNCHANGED << chkpt, E_, stamp >>
            /\ pc' = "Failed"
    /\ ret' = [returned |-> TRUE, value |-> ReturnValue(converged, E_')]
    /\ UNCHANGED << numvars, algorithm, scf_type_, memory_, maxiter_, energy_threshold_,
                    diis_enabled_, min_diis_vectors_, max_diis_vectors_, eri, pk_, k_, iter,
                    converged, diis_iter, Eold_,
                    initialized_diis_manager_, diis_subspace, B_allocated,
                    iwl_reads, pk_builds, trace, errfile >>

\* if (converged) { print; save_information(); return E_; }
\* else { print; return 0.0; }
Return ==
    /\ pc = "return"
    /\ IF converged
       THEN /\ outfile' = outfile \o << <<"text", "Energy converged.">>,
                                        <<"occupations", stamp.occ>> >>
            /\ chkpt' = Append(chkpt, save_information(E_, stamp))
            /\ pc' = "Converged"
       ELSE /\ outfile' = Append(outfile, <<"text", "Failed to converge.">>)
            /\ UNCHANGED chkpt
            /\ pc' = "Failed"
    /\ ret' = [returned |-> TRUE, value |-> ReturnValue(converged, E_)]
    /\ UNCHANGED << numvars, algorithm, scf_type_, memory_, maxiter_, energy_threshold_,
                    diis_enabled_, min_diis_vectors_, max_diis_vectors_, eri, pk_, k_, iter,
                    converged, diis_iter, E_, Eold_, stamp,
                    initialized_diis_manager_, diis_subspace, B_allocated,
                    iwl_reads, pk_builds, trace, errfile >>

Next ==
    \/ FormH
    \/ FormIntegrals
    \/ FormIntegralsAgain
    \/ FormShalf
    \/ LoadOrComputeInitialC
    \/ SavePrevious
    \/ FormG
    \/ FormF
    \/ SaveFock
    \/ ComputeE
    \/ Diis
    \/ PrintIteration
    \/ Diagonalize
    \/ FindOccupation
    \/ RebuildC
    \/ FormD
    \/ TestConvergency
    \/ FreeB
    \/ Return

Spec == Init /\ [][Next]_allvars

Done == pc \in {"Converged", "Failed", "aborted"}

(***************************************************************************)
(* Vocabulary of the claims about the driver.                              *)
(***************************************************************************)
BeforeLoop == pc \in {"form_H", "integrals", "integrals_again", "form_Shalf",
                      "initial_C"}
InPass == pc \in {"form_G", "form_F", "save_fock", "compute_E", "diis", "print",
                  "diagonalize", "find_occupation", "gemm", "form_D",
                  "test_convergency"}
AfterLoop == pc \in {"free_B", "return", "Converged", "Failed"}

\* the passes the loop can make: the body runs once before the cap is tested
Cap == IF maxiter_ < 1 THEN 1 ELSE maxiter_

\* the lines of the iteration table, in order
IsIterationLine(line) == line[1] = "iteration"
IterationLines == SelectSeq(outfile, IsIterationLine)

\* the energy of pass n as printed; for n = 0 the energy the first pass
\* compared against
PrintedEnergy(n) ==
    IF n = 0 THEN IterationLines[1][3] - IterationLines[1][4]
    ELSE IterationLines[n][3]
PredicateAt(n) == Abs(PrintedEnergy(n) - PrintedEnergy(n - 1)) < energy_threshold_

IsPrefix(a, b) == Len(a) <= Len(b) /\ \A n \in 1 .. Len(a) : a[n] = b[n]

\* the number of statements a run may still execute
PcPosition ==
    [q \in {"form_G", "form_F", "save_fock", "compute_E", "diis", "print",
            "diagonalize", "find_occupation", "gemm", "form_D",
            "test_convergency"} |->
        CASE q = "form_G" -> 1 [] q = "form_F" -> 2 [] q = "save_fock" -> 3
          [] q = "compute_E" -> 4 [] q = "diis" -> 5 [] q = "print" -> 6
          [] q = "diagonalize" -> 7 [] q = "find_occupation" -> 8
          [] q = "gemm" -> 9 [] q = "form_D" -> 10
          [] q = "test_convergency" -> 11]
PassLength == Cardinality(DOMAIN PcPosition) + 1
Rank ==
    CASE pc = "form_H" -> 8 + Cap * PassLength
      [] pc = "integrals" -> 7 + Cap * PassLength
      [] pc = "integrals_again" -> 6 + Cap * PassLength
      [] pc = "form_Shalf" -> 5 + Cap * PassLength
      [] pc = "initial_C" -> 4 + Cap * PassLength
      [] pc = "loop" -> 3 + (Cap - iter) * PassLength
      [] InPass -> 3 + (Cap - iter) * PassLength + (PassLength - PcPosition[pc])
      [] pc = "free_B" -> 2
      [] pc = "return" -> 1
      [] OTHER -> 0

(***************************************************************************)
(* C1 (as claimed): in a run with algorithm PK the supermatrix is built    *)
(* once and the integral file is read once: when the loop is entered and   *)
(* at every later point form_PK has run exactly one time.                  *)
(***************************************************************************)
C1_BuiltOnce ==
    (scf_type_ = "PK" /\ ~BeforeLoop) => (pk_builds = 1 /\ iwl_reads = 1)

(***************************************************************************)
(* C2 (as claimed): the loop never makes more passes than max_iterations   *)
(* (none for a cap of zero or less) and Failed is reached only after       *)
(* exactly max_iterations passes.                                          *)
(***************************************************************************)
C2_NeverPastCap ==
    LET cap == IF maxiter_ < 0 THEN 0 ELSE maxiter_
    IN  /\ iter <= cap
        /\ (pc = "Failed" => iter = cap)

(***************************************************************************)
(* C2 (amended): a run whose G build does not abort ends in Converged or   *)
(* in Failed; the loop body runs before the cap is tested, so the run      *)
(* makes at most max(max_iterations, 1) passes and reaches Failed only     *)
(* after exactly max(max_iterations, 1) passes.  Termination: every        *)
(* statement lowers Rank, which is never negative, and a run that has not  *)
(* ended can take a step (the two calls of form_PK have no condition).     *)
(***************************************************************************)
C2_State ==
    /\ iter <= Cap
    /\ (pc = "Failed" => iter = Cap)
    /\ Rank >= 0
    /\ (Done \/ pc \in {"integrals", "integrals_again"} \/ ENABLED Next)
    /\ (pc = "aborted" =>
           GBuild(scf_type_) \in {"form_G", "form_G_from_direct_integrals"})
C2_TerminatesWithinCap == [](C2_State) /\ [][Rank' < Rank]_allvars
C2_Witness == pc = "Failed" /\ maxiter_ = 0 /\ iter = 1

(***************************************************************************)
(* C3: the run reaches Converged at pass n exactly when n is the first     *)
(* pass whose energy differs from the energy before it by less than the    *)
(* threshold (strictly); the first pass compares with the energy of the    *)
(* initial guess.  A run that ends in Failed had no such pass.             *)
(***************************************************************************)
C3_ConvergedAtFirst ==
    /\ (pc = "Converged" =>
           /\ Len(IterationLines) = iter
           /\ PredicateAt(iter)
           /\ \A n \in 1 .. (iter - 1) : ~PredicateAt(n))
    /\ (pc = "Failed" =>
           /\ Len(IterationLines) = iter
           /\ \A n \in 1 .. iter : ~PredicateAt(n))
    /\ ((pc = "loop" /\ iter > 0) => \A n \in 1 .. iter : ~PredicateAt(n))
    /\ \A m \in 1 .. Len(outfile) :
          (outfile[m][1] = "initial" /\ IterationLines # << >>)
              => PrintedEnergy(0) = outfile[m][2]
C3_Witness ==
    /\ pc = "Failed"
    /\ iter >= 2
    /\ energy_threshold_ > 0
    /\ \E n \in 1 .. iter :
          Abs(PrintedEnergy(n) - PrintedEnergy(n - 1)) = energy_threshold_

LastLine == outfile[Len(outfile)]

(***************************************************************************)
(* C4: a run whose last pass leaves the predicate false ends in Failed     *)
(* without aborting; it returns 0, its last output line reports the        *)
(* failure, and nothing was written to the checkpoint file.                *)
(***************************************************************************)
C4_FailedIsReported ==
    /\ (pc = "Failed" =>
           /\ ret.returned
           /\ ret.value = 0
           /\ LastLine = <<"text", "Failed to converge.">>
           /\ chkpt = << >>
           /\ errfile = << >>
           /\ ~converged
           /\ ~PredicateAt(iter))
    /\ ((pc \in {"free_B", "return"} /\ ~converged) => chkpt = << >>)
    /\ ((Done /\ AfterLoop /\ ~PredicateAt(iter)) => pc = "Failed")
C4_Witness == pc = "Failed" /\ E_ # 0 /\ iter = maxiter_ /\ iter >= 2

(***************************************************************************)
(* C5: the checkpoint record is written at most once, it has been written  *)
(* exactly when the run is in Converged (so after the last pass), and the  *)
(* energies in it are the value compute_energy returned; the occupations,  *)
(* orbital energies, coefficients and effective Fock matrix in it are the  *)
(* final ones.                                                             *)
(***************************************************************************)
C5_RecordIffConverged ==
    /\ Len(chkpt) <= 1
    /\ (Len(chkpt) = 1 <=> pc = "Converged")
    /\ (pc = "Converged" =>
           /\ ret.returned
           /\ chkpt[1].etot = ret.value
           /\ chkpt[1].escf = ret.value
           /\ chkpt[1].eref = ret.value
           /\ ret.value = PrintedEnergy(iter)
           /\ chkpt[1].clsdpi = stamp.occ
           /\ chkpt[1].openpi = stamp.occ
           /\ chkpt[1].evals = stamp.eps
           /\ chkpt[1].scf = stamp.C
           /\ chkpt[1].Feff = <<stamp.F, stamp.FC, stamp.Fdiis>>
           /\ stamp.occ = iter /\ stamp.C = iter)
C5_Witness == pc = "Converged" /\ ret.value # 0 /\ E_ # Eold_ /\ Len(chkpt) = 1

(***************************************************************************)
(* C6: the calls of a pass come in the order save previous, build G,       *)
(* form_F, compute_E, (diis), diagonalize, find_occupation, rebuild C,     *)
(* form_D, test_convergency, each once; save_fock, which the claim does    *)
(* not list, is left out of the comparison.  G is built from the           *)
(* densities the pass started with.                                        *)
(***************************************************************************)
PassOrder(withDiis) ==
    << "save_previous", "build_G", "form_F", "compute_E" >>
    \o (IF withDiis THEN << "diis" >> ELSE << >>)
    \o << "diagonalize", "find_occupation", "gemm", "form_D", "test_convergency" >>
NotSaveFock(x) == x # "save_fock"
ClaimedSteps ==
    LET t == SelectSeq(trace, NotSaveFock)
    IN  [n \in 1 .. Len(t) |->
            IF t[n] \in {"form_G_from_PK", "form_G_from_RI", "form_G",
                         "form_G_from_direct_integrals"}
            THEN "build_G" ELSE t[n]]
C6_FixedOrder ==
    /\ (IsPrefix(ClaimedSteps, PassOrder(TRUE))
           \/ IsPrefix(ClaimedSteps, PassOrder(FALSE)))
    /\ (((pc = "loop" /\ iter > 0) \/ AfterLoop) =>
           ClaimedSteps \in {PassOrder(TRUE), PassOrder(FALSE)})
    /\ ((InPass /\ pc # "form_G") =>
           /\ trace[2] \in {"form_G_from_PK", "form_G_from_RI"}
           /\ stamp.G = stamp.Dold)
    /\ (InPass => Len(trace) >= 1)
C6_Witness ==
    /\ pc = "Failed"
    /\ iter > 0 /\ iter % 6 = 0
    /\ diis_iter
    /\ ClaimedSteps = PassOrder(TRUE)

(***************************************************************************)
(* C11: in every state of the driver the DIIS subspace holds at most       *)
(* max_diis_vectors_ entries.  (save_fock only creates the manager; no      *)
(* statement of the solver adds an entry, so the subspace stays empty.)    *)
(***************************************************************************)
C11_HistoryBounded == Len(diis_subspace) <= max_diis_vectors_
C11_Witness ==
    /\ pc = "compute_E"
    /\ diis_enabled_
    /\ initialized_diis_manager_
    /\ iter > max_diis_vectors_

(***************************************************************************)
(* C13 (as claimed): with DIIS enabled every pass that calls diis() has    *)
(* added one entry to the subspace before the call, so that after the      *)
(* k-th such pass the subspace holds min(k, max_diis_vectors_) entries.    *)
(***************************************************************************)
EligiblePasses == {n \in 1 .. iter : DiisEligible(diis_enabled_, n, min_diis_vectors_)}
C13_AppendsPerEligible ==
    (pc = "print" /\ diis_iter) =>
        LET k == Cardinality(EligiblePasses)
        IN  Len(diis_subspace) = (IF k <= max_diis_vectors_ THEN k ELSE max_diis_vectors_)

(***************************************************************************)
(* C14: when the extrapolation of a pass fails the run goes on: the        *)
(* Feff_ that the pass prints, diagonalizes and tests is the one form_F    *)
(* built in this pass from the G of this pass, not extrapolated; nothing   *)
(* is written to stderr, the pass is completed in the usual order, and     *)
(* the only statement that ends a run early is the G build.                *)
(***************************************************************************)
AfterDiis == pc \in {"print", "diagonalize", "find_occupation", "gemm", "form_D",
                     "test_convergency"}
DiisFailed == diis_iter /\ stamp.diis_ret = FALSE
C14_FailureSkipped ==
    /\ ((AfterDiis /\ DiisFailed) =>
           /\ stamp.Fdiis = FALSE
           /\ stamp.F = stamp.G /\ stamp.G = stamp.Dold
           /\ errfile = << >>
           /\ IsPrefix(ClaimedSteps, PassOrder(TRUE)))
    /\ ((AfterLoop /\ DiisFailed) =>
           /\ ClaimedSteps = PassOrder(TRUE)
           /\ stamp.eps = iter /\ stamp.C = iter /\ stamp.D = iter)
    /\ (pc = "aborted" =>
           /\ trace[Len(trace)] \in {"form_G", "form_G_from_direct_integrals"}
           /\ stamp.diis_ret = "none")
C14_Witness ==
    /\ pc = "Failed"
    /\ DiisFailed
    /\ iter > 0 /\ iter % 6 = 0

(***************************************************************************)
(* C15 (as claimed): with algorithm PK the in-core arrays are used exactly *)
(* when the two arrays of pk_size_ doubles do not exceed memory_ bytes;    *)
(* otherwise no array is allocated or filled, the solver switches to       *)
(* OUT_OF_CORE and the run aborts in the G build of the first pass with    *)
(* the diagnostic of form_G, before compute_E is called or anything is     *)
(* returned.                                                               *)
(***************************************************************************)
C15_InCoreWhenFits ==
    algorithm = "PK" =>
        /\ (scf_type_ = "PK" <=> 2 * pk_size_ * SizeofDouble <= memory_)
        /\ scf_type_ \in {"PK", "OUT_OF_CORE"}
        /\ (scf_type_ = "OUT_OF_CORE" =>
               /\ pk_ = Null /\ k_ = Null
               /\ pk_builds = 0 /\ iwl_reads = 0
               /\ (BeforeLoop \/ pc \in {"loop", "form_G", "aborted"})
               /\ iter <= 1
               /\ stamp.EF = -1
               /\ ~ret.returned
               /\ (pc = "aborted" =>
                      errfile = << "ROHF out-of-core algorithm is not implemented yet!" >>))

(***************************************************************************)
(* C19 (as claimed): when the loop is entered every diagonal entry         *)
(* (pair == pair) of pk_ and of k_ is one half of the sum of the           *)
(* contributions that were deposited into it and every other entry is the  *)
(* sum of its contributions: the diagonal was halved once.  One pass over  *)
(* the integral file deposits OnePass; pk_builds passes were made.         *)
(***************************************************************************)
OnePass == SortFile([pk |-> ZeroArray, k |-> ZeroArray], eri, 1)
Deposited(a) == [x \in DOMAIN a |-> pk_builds * a[x]]
C19_DiagonalHalvedOnce ==
    (scf_type_ = "PK" /\ pc = "loop" /\ iter = 0) =>
        /\ pk_ = HalveDiagonal(Deposited(OnePass.pk))
        /\ k_ = HalveDiagonal(Deposited(OnePass.k))

(***************************************************************************)
(* C16: with algorithm DIRECT the run ends in the G build of the first     *)
(* pass: form_G_from_direct_integrals writes its diagnostic to stderr and  *)
(* aborts.  No G and no Fock matrix is formed, compute_E is never called,  *)
(* no line of the iteration table is printed, nothing is returned or       *)
(* written to the checkpoint file, and neither Converged nor Failed is     *)
(* reached.                                                                *)
(***************************************************************************)
C16_DirectAborts ==
    algorithm = "DIRECT" =>
        /\ scf_type_ = "DIRECT"
        /\ (BeforeLoop \/ pc \in {"loop", "form_G", "aborted"})
        /\ iter <= 1
        /\ (pc = "loop" => iter = 0)
        /\ stamp.G = -1 /\ stamp.F = -1 /\ stamp.EF = -1
        /\ IterationLines = << >>
        /\ ~ret.returned
        /\ chkpt = << >>
        /\ (pc = "aborted" =>
               /\ iter = 1
               /\ trace = << "save_previous", "form_G_from_direct_integrals" >>
               /\ errfile = << "ROHF integral direct algorithm is not implemented yet!" >>)
        /\ (pc # "aborted" => errfile = << >>)
C16_Witness ==
    /\ algorithm = "DIRECT"
    /\ pc = "aborted"
    /\ maxiter_ > 1

(***************************************************************************)
(* C17: from the moment the loop is entered no statement changes an entry  *)
(* of pk_ or k_.                                                           *)
(***************************************************************************)
C17_SupermatrixFrozen == [][(~BeforeLoop) => (pk_' = pk_ /\ k_' = k_)]_allvars
C17_Witness ==
    /\ scf_type_ = "PK"
    /\ pc = "Converged"
    /\ iter >= 2
    /\ pk_ # ZeroArray /\ k_ # ZeroArray

(***************************************************************************)
(* C21 (as claimed): the iteration table holds one line for each pass      *)
(* that got as far as the fprintf, numbered 1, 2, 3, ...; the difference   *)
(* printed in a line is its energy minus the energy of the line before     *)
(* (for the line just printed: E_ - Eold_); and the line is marked DIIS    *)
(* exactly when the Feff_ of the pass was replaced by an extrapolated one. *)
(***************************************************************************)
Printed == pc \in {"diagonalize", "find_occupation", "gemm", "form_D",
                   "test_convergency"}
C21_SinkTuples ==
    /\ Len(IterationLines) = (IF Printed \/ AfterLoop \/ pc = "loop" THEN iter
                              ELSE IF iter = 0 THEN 0 ELSE iter - 1)
    /\ \A n \in 1 .. Len(IterationLines) :
          /\ Len(IterationLines[n]) = 5
          /\ IterationLines[n][2] = n
          /\ (n >= 2 => IterationLines[n][4] =
                            IterationLines[n][3] - IterationLines[n - 1][3])
    /\ (pc = "diagonalize" =>
           LastLine = <<"iteration", iter, E_, E_ - Eold_, stamp.Fdiis>>)

(***************************************************************************)
(* C22: pass n calls diis() exactly when diis_enabled_ is true,            *)
(* n >= min_diis_vectors_ and n is a multiple of 6; this is what the mark  *)
(* of every line of the iteration table, diis_iter and the calls of the    *)
(* pass show, and an extrapolated Feff_ exists only from the diis() of     *)
(* such a pass to the next form_F.  With diis_enabled_ false no pass calls *)
(* save_fock or diis(): no manager is created, the subspace stays empty    *)
(* and no Feff_ is extrapolated.                                           *)
(***************************************************************************)
Cadence == 6
Attempted(n) == diis_enabled_ /\ n >= min_diis_vectors_ /\ n % Cadence = 0
Called(name) == \E x \in 1 .. Len(trace) : trace[x] = name
C22_AttemptedIffEligible ==
    /\ \A n \in 1 .. Len(IterationLines) : IterationLines[n][5] = Attempted(n)
    /\ ((AfterDiis \/ (pc = "loop" /\ iter > 0) \/ AfterLoop) =>
           /\ diis_iter = Attempted(iter)
           /\ Called("diis") = Attempted(iter)
           /\ (diis_iter \/ stamp.diis_ret = "none"))
    /\ (stamp.Fdiis = TRUE =>
           IF pc \in {"form_G", "form_F"} THEN Attempted(iter - 1)
           ELSE (AfterDiis \/ pc = "loop" \/ AfterLoop) /\ Attempted(iter))
    /\ (~diis_enabled_ =>
           /\ ~initialized_diis_manager_
           /\ diis_subspace = << >>
           /\ stamp.Fdiis = FALSE /\ stamp.diis_ret = "none"
           /\ ~diis_iter
           /\ ~Called("save_fock") /\ ~Called("diis"))
C22_Witness ==
    /\ pc = "diagonalize"
    /\ iter = Cadence
    /\ diis_iter /\ Called("diis") /\ stamp.Fdiis = TRUE
    /\ min_diis_vectors_ > 1

(***************************************************************************)
(* C25: for each of the algorithms PK, OUT_OF_CORE, DIRECT, DF and CD a    *)
(* pass either rebuilds Gc_ and Go_ from the densities it started with     *)
(* and then calls form_F, or ends the run in the G build with a            *)
(* diagnostic on stderr and without calling form_F.  The Fock matrices of  *)
(* pass n are formed from the G of pass n, which is built from the         *)
(* densities of generation n - 1.                                          *)
(***************************************************************************)
AfterFormF == pc \in {"save_fock", "compute_E", "diis", "print", "diagonalize",
                      "find_occupation", "gemm", "form_D", "test_convergency"}
C25_GRebuiltBeforeF ==
    /\ (pc = "form_F" =>
           /\ trace = << "save_previous", GBuild(scf_type_) >>
           /\ trace[2] \in {"form_G_from_PK", "form_G_from_RI"}
           /\ stamp.D = iter - 1 /\ stamp.G = iter - 1)
    /\ (AfterFormF =>
           /\ Len(trace) >= 3
           /\ trace[2] \in {"form_G_from_PK", "form_G_from_RI"}
           /\ trace[3] = "form_F"
           /\ stamp.Dold = iter - 1 /\ stamp.G = iter - 1 /\ stamp.F = iter - 1)
    /\ (pc = "aborted" =>
           /\ Len(trace) = 2
           /\ trace[2] \in {"form_G", "form_G_from_direct_integrals"}
           /\ Len(errfile) = 1
           /\ stamp.F < iter - 1)
    /\ ((pc = "loop" /\ iter > 0) \/ AfterLoop => stamp.F = iter - 1)
C25_Witness ==
    /\ pc = "compute_E"
    /\ algorithm = "CD"
    /\ iter = 2
    /\ stamp.F = 1 /\ stamp.G = 1

(***************************************************************************)
(* C26: compute_E of pass n is evaluated on the densities of generation    *)
(* n - 1, with which the pass started, and on the Fock matrices built      *)
(* from them, before the diagonalization of the pass.  A run that ends in  *)
(* Converged after n passes returns that energy, the one of the last line  *)
(* of the iteration table, while the orbital energies, occupations,        *)
(* coefficients and densities it leaves, and the occupations and           *)
(* coefficients in the checkpoint record, are of generation n.             *)
(***************************************************************************)
C26_EnergyOneUpdateBehind ==
    /\ (pc = "diis" =>
           /\ stamp.E = iter - 1 /\ stamp.EF = iter - 1
           /\ stamp.D = iter - 1 /\ stamp.Dold = iter - 1
           /\ stamp.eps = iter - 1 /\ stamp.occ = iter - 1 /\ stamp.C = iter - 1)
    /\ (pc = "Converged" =>
           /\ iter >= 1
           /\ ret.returned /\ ret.value = E_
           /\ ret.value = IterationLines[iter][3]
           /\ stamp.E = iter - 1 /\ stamp.EF = iter - 1
           /\ stamp.eps = iter /\ stamp.occ = iter /\ stamp.C = iter
           /\ stamp.D = iter /\ stamp.Dold = iter - 1
           /\ stamp.D = stamp.E + 1
           /\ chkpt[1].etot = ret.value
           /\ chkpt[1].scf = stamp.E + 1
           /\ chkpt[1].clsdpi = stamp.E + 1 /\ chkpt[1].openpi = stamp.E + 1
           /\ chkpt[1].evals = stamp.E + 1)
C26_Witness ==
    /\ pc = "Converged"
    /\ iter >= 2
    /\ ret.value # 0
    /\ stamp.D = iter /\ stamp.E = iter - 1

(***************************************************************************)
(* The values the driver's variables have in the specifications of the     *)
(* matrix routines, which do not use them.                                 *)
(***************************************************************************)
DriverIdle ==
    /\ algorithm = "PK" /\ scf_type_ = "PK" /\ memory_ = 0 /\ maxiter_ = 0
    /\ energy_threshold_ = 0 /\ diis_enabled_ = FALSE /\ min_diis_vectors_ = 0
    /\ max_diis_vectors_ = 0
    /\ eri = << >> /\ pk_ = Null /\ k_ = Null /\ pc = "idle" /\ iter = 0
    /\ converged = FALSE /\ diis_iter = FALSE /\ E_ = 0 /\ Eold_ = 0
    /\ stamp = InitialStamp /\ initialized_diis_manager_ = FALSE
    /\ diis_subspace = << >> /\ B_allocated = FALSE /\ iwl_reads = 0
    /\ pk_builds = 0 /\ trace = << >> /\ outfile = << >> /\ errfile = << >>
    /\ chkpt = << >> /\ ret = [returned |-> FALSE, value |-> 0]

(***************************************************************************)
(* Matrix: copy, add, scale(0.5), transform.                               *)
(***************************************************************************)
RECURSIVE SumRange(_, _, _)
SumRange(f, lo, hi) == IF lo > hi THEN 0 ELSE f[lo] + SumRange(f, lo + 1, hi)

\* Matrix::add
MatAdd(A, B) ==
    [h \in Irreps |-> [i \in Rows(h) |-> [j \in Rows(h) |-> A[h][i][j] + B[h][i][j]]]]

\* Matrix::scale(0.5)
MatHalf(A) ==
    [h \in Irreps |-> [i \in Rows(h) |-> [j \in Rows(h) |-> Half(A[h][i][j])]]]

\* Matrix::transform(F, C): the transpose of C times F times C, block by block
Transform(F, C) ==
    [h \in Irreps |-> [i \in Rows(h) |-> [j \in Rows(h) |->
        SumRange([p \in Rows(h) |->
                    SumRange([q \in Rows(h) |-> C[h][p][i] * F[h][p][q] * C[h][q][j]],
                             0, Dim(h) - 1)],
                 0, Dim(h) - 1)]]]

\* Feff_->set(h, i, j, val); Feff_->set(h, j, i, val);
SetBoth(M, h, i, j, val) == [M EXCEPT ![h][i][j] = val, ![h][j][i] = val]

(***************************************************************************)
(* ROHF::form_F.  The three inner loops over j of one open orbital i of    *)
(* one irrep h, then the loop over i, then the loop over h.                *)
(***************************************************************************)
\* for (j = 0; j < doccpi_[h]; ++j): the open/closed portion
RECURSIVE OpenClosed(_, _, _, _, _, _, _)
OpenClosed(M, Fct, Fot, h, i, j, end) ==
    IF j >= end THEN M
    ELSE OpenClosed(SetBoth(M, h, i, j, 2 * (Fct[h][i][j] - Fot[h][i][j])),
                    Fct, Fot, h, i, j + 1, end)

\* mutant: the open/virtual portion is stored without the factor 2
RECURSIVE OpenVirtualUnscaled(_, _, _, _, _, _)
OpenVirtualUnscaled(M, Fot, h, i, j, end) ==
    IF j >= end THEN M
    ELSE OpenVirtualUnscaled(SetBoth(M, h, i, j, Fot[h][i][j]), Fot, h, i, j + 1, end)

\* for (j = doccpi_[h] + soccpi_[h]; j < opi[h]; ++j): the open/virtual portion
RECURSIVE OpenVirtual(_, _, _, _, _, _)
OpenVirtual(M, Fot, h, i, j, end) ==
    IF j >= end THEN M
    ELSE OpenVirtual(SetBoth(M, h, i, j, 2 * Fot[h][i][j]), Fot, h, i, j + 1, end)

\* for (j = doccpi_[h]; j < doccpi_[h] + soccpi_[h]; ++j): the open/open portion
RECURSIVE OpenOpen(_, _, _, _, _, _)
OpenOpen(M, Fot, h, i, j, end) ==
    IF j >= end THEN M
    ELSE OpenOpen(SetBoth(M, h, i, j, Fot[h][i][j]), Fot, h, i, j + 1, end)

\* for (i = doccpi_[h]; i < doccpi_[h] + soccpi_[h]; ++i)
RECURSIVE OpenRows(_, _, _, _, _, _, _)
OpenRows(M, Fct, Fot, h, i, docc, socc) ==
    IF i >= docc[h] + socc[h] THEN M
    ELSE LET m1 == OpenClosed(M, Fct, Fot, h, i, 0, docc[h])
             m2 == OpenVirtual(m1, Fot, h, i, docc[h] + socc[h], Dim(h))
             m3 == OpenOpen(m2, Fot, h, i, docc[h], docc[h] + socc[h])
         IN  OpenRows(m3, Fct, Fot, h, i + 1, docc, socc)

\* mutant: the loop over the open orbitals starts at orbital 0
RECURSIVE EffectiveBlocksFromZero(_, _, _, _, _, _)
EffectiveBlocksFromZero(M, Fct, Fot, h, docc, socc) ==
    IF h >= Len(opi) THEN M
    ELSE EffectiveBlocksFromZero(OpenRows(M, Fct, Fot, h, 0, docc, socc),
                                 Fct, Fot, h + 1, docc, socc)

\* for (h = 0; h < Feff_->nirreps(); ++h)
RECURSIVE EffectiveBlocks(_, _, _, _, _, _)
EffectiveBlocks(M, Fct, Fot, h, docc, socc) ==
    IF h >= Len(opi) THEN M
    ELSE EffectiveBlocks(OpenRows(M, Fct, Fot, h, docc[h], docc, socc),
                         Fct, Fot, h + 1, docc, socc)

form_F(H, Gc, Go, C, docc, socc) ==
    LET Fc == MatAdd(H, Gc)
        Fo == MatAdd(MatHalf(H), Go)
        Fct == Transform(Fc, C)
        Fot == Transform(Fo, C)
    IN  [Fc |-> Fc, Fo |-> Fo,
         Feff |-> EffectiveBlocks(Fct, Fct, Fot, 0, docc, socc)]

(***************************************************************************)
(* SpecF: form_F applied to every input of the sets below.                 *)
(***************************************************************************)
\* the largest entry of the G matrices
MaxG == 1

Max(a, b) == IF a >= b THEN a ELSE b
Min(a, b) == IF a <= b THEN a ELSE b

\* the independent entries of a symmetric blocked matrix
Positions == {p \in Irreps \X (0 .. (nso - 1)) \X (0 .. (nso - 1)) :
                 p[2] \in Rows(p[1]) /\ p[3] <= p[2]}
SparseEntries(counts) ==
    UNION {[S -> 1 .. MaxG] :
              S \in {T \in SUBSET Positions : Cardinality(T) \in counts}}
SymmetricMatrix(f) ==
    [h \in Irreps |-> [i \in Rows(h) |-> [j \in Rows(h) |->
        LET p == <<h, Max(i, j), Min(i, j)>>
        IN  IF p \in DOMAIN f THEN f[p] ELSE 0]]]
\* symmetric matrices with entries in 0 .. MaxG: Gc_ with at most two
\* independent entries that are not zero, Go_ with at most one
GcMatrices == {SymmetricMatrix(f) : f \in SparseEntries({0, 1, 2})}
GoMatrices == {SymmetricMatrix(f) : f \in SparseEntries({0, 1})}

HCore == [h \in Irreps |-> [i \in Rows(h) |-> [j \in Rows(h) |->
             IF i = j THEN 2 * (i + h + 1) ELSE 2]]]

Identity == [h \in Irreps |-> [i \in Rows(h) |-> [j \in Rows(h) |->
                IF i = j THEN 1 ELSE 0]]]
Mixing == [h \in Irreps |-> [i \in Rows(h) |-> [j \in Rows(h) |->
              IF i = j THEN (IF h = 0 THEN 1 ELSE -1)
              ELSE IF j = i + 1 THEN 1 ELSE 0]]]
CMatrices == {Identity, Mixing}

\* occupations that fit the blocks
Occupations ==
    {o \in [Irreps -> (0 .. nso) \X (0 .. nso)] :
        \A h \in Irreps : o[h][1] + o[h][2] <= Dim(h)}

InitF ==
    /\ DriverIdle
    /\ H_ = HCore
    /\ C_ \in CMatrices
    /\ Gc_ \in GcMatrices
    /\ Go_ \in GoMatrices
    /\ \E o \in Occupations :
          /\ doccpi_ = [h \in Irreps |-> o[h][1]]
          /\ soccpi_ = [h \in Irreps |-> o[h][2]]
    /\ Fc_ = ZeroMatrix /\ Fo_ = ZeroMatrix /\ Feff_ = ZeroMatrix
    /\ Dc_ = ZeroMatrix /\ Do_ = ZeroMatrix
    /\ epsilon_ = ZeroVector
    /\ nalpha_ = 0 /\ nbeta_ = 0 /\ nelectron = 0
    /\ occ_calls = 0
    /\ occ_previous = [docc |-> ZeroCounts, socc |-> ZeroCounts]
    /\ routine = "ready"

FormFock ==
    /\ routine = "ready"
    /\ routine' = "form_F"
    /\ LET r == form_F(H_, Gc_, Go_, C_, doccpi_, soccpi_)
       IN  /\ Fc_' = r.Fc
           /\ Fo_' = r.Fo
           /\ Feff_' = r.Feff
    /\ UNCHANGED << vars, ovars, H_, Dc_, Do_, Gc_, Go_, C_ >>

NextF == FormFock

SpecF == InitF /\ [][NextF]_allvars

(***************************************************************************)
(* Vocabulary of the claims about Feff.                                    *)
(***************************************************************************)
\* Fc_ and Fo_ in the MO basis
FcMO == Transform(Fc_, C_)
FoMO == Transform(Fo_, C_)
Closed(h) == {i \in Rows(h) : i < doccpi_[h]}
Open(h) == {i \in Rows(h) : doccpi_[h] <= i /\ i < doccpi_[h] + soccpi_[h]}
Virtual(h) == {i \in Rows(h) : doccpi_[h] + soccpi_[h] <= i}
IsSymmetric(M) == \A h \in Irreps : \A i, j \in Rows(h) : M[h][i][j] = M[h][j][i]

(***************************************************************************)
(* C7 (as claimed): after form_F every entry of the closed x closed, the   *)
(* open x open and the virtual x virtual block of Feff is the entry of Fc  *)
(* in the MO basis.                                                        *)
(***************************************************************************)
C7_DiagonalBlocksFromFc ==
    routine = "form_F" =>
        \A h \in Irreps :
            /\ \A i, j \in Closed(h) : Feff_[h][i][j] = FcMO[h][i][j]
            /\ \A i, j \in Open(h) : Feff_[h][i][j] = FcMO[h][i][j]
            /\ \A i, j \in Virtual(h) : Feff_[h][i][j] = FcMO[h][i][j]

(***************************************************************************)
(* C8: after form_F every closed x open entry of Feff and its transpose    *)
(* is 2 (Fc - Fo) in the MO basis, every open x virtual entry and its      *)
(* transpose is 2 Fo in the MO basis, and Feff is symmetric when Fc and Fo *)
(* in the MO basis are.                                                    *)
(***************************************************************************)
C8_CouplingBlocks ==
    routine = "form_F" =>
        /\ \A h \in Irreps :
              /\ \A i \in Open(h), j \in Closed(h) :
                    /\ Feff_[h][i][j] = 2 * (FcMO[h][i][j] - FoMO[h][i][j])
                    /\ Feff_[h][j][i] = 2 * (FcMO[h][j][i] - FoMO[h][j][i])
              /\ \A i \in Open(h), j \in Virtual(h) :
                    /\ Feff_[h][i][j] = 2 * FoMO[h][i][j]
                    /\ Feff_[h][j][i] = 2 * FoMO[h][j][i]
        /\ ((IsSymmetric(FcMO) /\ IsSymmetric(FoMO)) => IsSymmetric(Feff_))
C8_Witness ==
    /\ routine = "form_F"
    /\ doccpi_[0] = 1 /\ soccpi_[0] = 1
    /\ C_ = Mixing
    /\ FcMO[0][1][0] # FoMO[0][1][0]
    /\ FoMO[0][1][2] # 0
    /\ Feff_[0][1][0] # FcMO[0][1][0]

(***************************************************************************)
(* C9: with no open orbital in any irrep the Feff of form_F is Fc in the   *)
(* MO basis, entry for entry.                                              *)
(***************************************************************************)
C9_ClosedShellLimit ==
    (routine = "form_F" /\ \A h \in Irreps : soccpi_[h] = 0) => Feff_ = FcMO
C9_Witness ==
    /\ routine = "form_F"
    /\ \A h \in Irreps : soccpi_[h] = 0
    /\ doccpi_[0] = 2
    /\ FcMO # FoMO
    /\ FcMO[0][1][0] # 2 * (FcMO[0][1][0] - FoMO[0][1][0])
    /\ Feff_ # ZeroMatrix

(***************************************************************************)
(* find_occupation of the base class (the Occupation Selector): all        *)
(* (eigenvalue, irrep) pairs in one sequence, irrep by irrep, sorted       *)
(* stably by eigenvalue; the lowest nbeta_ pairs are doubly occupied, the  *)
(* next nalpha_ - nbeta_ singly occupied.                                  *)
(***************************************************************************)
RECURSIVE Flatten(_, _)
Flatten(evals, h) ==
    IF h >= Len(opi) THEN << >>
    ELSE [n \in 1 .. Dim(h) |-> <<evals[h][n - 1], h>>] \o Flatten(evals, h + 1)

\* insert pair x behind the pairs of the sorted sequence that are not above it
RECURSIVE InsertSorted(_, _)
InsertSorted(sorted, x) ==
    IF sorted = << >> THEN << x >>
    ELSE IF sorted[Len(sorted)][1] <= x[1] THEN Append(sorted, x)
    ELSE Append(InsertSorted(SubSeq(sorted, 1, Len(sorted) - 1), x),
                sorted[Len(sorted)])

RECURSIVE StableSort(_, _, _)
StableSort(pairs, n, sorted) ==
    IF n > Len(pairs) THEN sorted
    ELSE StableSort(pairs, n + 1, InsertSorted(sorted, pairs[n]))

CountIrrep(pairs, from, to, h) ==
    Cardinality({n \in from .. to : n <= Len(pairs) /\ pairs[n][2] = h})

find_occupation(evals, nbeta, nalpha) ==
    LET pairs == StableSort(Flatten(evals, 0), 1, << >>)
    IN  [docc |-> [h \in Irreps |-> CountIrrep(pairs, 1, nbeta, h)],
         socc |-> [h \in Irreps |-> CountIrrep(pairs, nbeta + 1, nalpha, h)]]

(***************************************************************************)
(* SpecOcc: the initial guess and the form_C of the passes, with every     *)
(* spectrum the diagonalizations can return.                                *)
(***************************************************************************)
\* the largest orbital energy
MaxEps == 1
\* the number of calls of find_occupation followed
MaxOccCalls == 3

\* eigenvalues ascending within each irrep
Spectra ==
    {e \in [Irreps -> [0 .. (nso - 1) -> 0 .. MaxEps]] :
        \A h \in Irreps :
            /\ \A i \in 0 .. (nso - 1) : i >= Dim(h) => e[h][i] = 0
            /\ \A i, j \in Rows(h) : i <= j => e[h][i] <= e[h][j]}
Spectrum(e) == [h \in Irreps |-> [i \in Rows(h) |-> e[h][i]]]

\* electron counts and multiplicities that fit the basis
Multiplicities == 1 .. (nso + 1)
Electrons == 0 .. (2 * nso)
Fits(nel, mult) ==
    /\ mult - 1 <= nel
    /\ (nel - mult + 1) % 2 = 0
    /\ (nel - mult + 1) \div 2 + mult - 1 <= nso

InitOcc ==
    /\ DriverIdle
    /\ H_ = HCore /\ Gc_ = ZeroMatrix /\ Go_ = ZeroMatrix /\ C_ = ZeroMatrix
    /\ Fc_ = ZeroMatrix /\ Fo_ = ZeroMatrix /\ Feff_ = ZeroMatrix
    /\ Dc_ = ZeroMatrix /\ Do_ = ZeroMatrix
    /\ doccpi_ = ZeroCounts /\ soccpi_ = ZeroCounts
    /\ epsilon_ = ZeroVector
    /\ \E nel \in Electrons, mult \in Multiplicities :
          /\ Fits(nel, mult)
          /\ nelectron = nel
          /\ nbeta_ = (nel - mult + 1) \div 2
          /\ nalpha_ = (nel - mult + 1) \div 2 + mult - 1
    /\ occ_calls = 0
    /\ occ_previous = [docc |-> ZeroCounts, socc |-> ZeroCounts]
    /\ routine = "ready"

\* mutant: the initial guess leaves the occupations as they are
FormInitialCWithoutOccupation ==
    /\ routine = "ready"
    /\ routine' = "form_initial_C"
    /\ C_' \in CMatrices
    /\ occ_calls' = occ_calls + 1
    /\ occ_previous' = [docc |-> doccpi_, socc |-> soccpi_]
    /\ UNCHANGED << vars, H_, Dc_, Do_, Gc_, Go_, Fc_, Fo_, Feff_, epsilon_, nalpha_,
                    nbeta_, nelectron, doccpi_, soccpi_ >>

\* ROHF::form_initial_C: diagonalize the transformed H_ into C_ and the
\* local vector values, find_occupation(values), C_ = Shalf_ C_
FormInitialC ==
    /\ routine = "ready"
    /\ routine' = "form_initial_C"
    /\ \E values \in Spectra :
          LET o == find_occupation(Spectrum(values), nbeta_, nalpha_)
          IN  /\ doccpi_' = o.docc
              /\ soccpi_' = o.socc
    /\ C_' \in CMatrices
    /\ occ_calls' = occ_calls + 1
    /\ occ_previous' = [docc |-> doccpi_, socc |-> soccpi_]
    /\ UNCHANGED << vars, H_, Dc_, Do_, Gc_, Go_, Fc_, Fo_, Feff_, epsilon_, nalpha_,
                    nbeta_, nelectron >>

\* ROHF::form_C: diagonalize Feff_ into eigvec and epsilon_,
\* find_occupation(epsilon_), C_ = C_ eigvec
FormC ==
    /\ routine \in {"form_initial_C", "form_C"}
    /\ occ_calls < MaxOccCalls
    /\ routine' = "form_C"
    /\ \E values \in Spectra :
          LET o == find_occupation(Spectrum(values), nbeta_, nalpha_)
          IN  /\ epsilon_' = Spectrum(values)
              /\ doccpi_' = o.docc
              /\ soccpi_' = o.socc
    /\ C_' \in CMatrices
    /\ occ_calls' = occ_calls + 1
    /\ occ_previous' = [docc |-> doccpi_, socc |-> soccpi_]
    /\ UNCHANGED << vars, H_, Dc_, Do_, Gc_, Go_, Fc_, Fo_, Feff_, nalpha_, nbeta_,
                    nelectron >>

NextOcc == FormInitialC \/ FormC

SpecOcc == InitOcc /\ [][NextOcc]_allvars

Total(counts) == SumRange(counts, 0, Len(opi) - 1)

(***************************************************************************)
(* C10: after the initial guess and after the find_occupation of every     *)
(* pass, twice the doubly occupied plus the singly occupied orbitals are   *)
(* the electrons of the molecule, the occupied orbitals of an irrep fit    *)
(* its block, and the two totals are those of the call before.             *)
(***************************************************************************)
C10_OccupationInvariant ==
    routine \in {"form_initial_C", "form_C"} =>
        /\ 2 * Total(doccpi_) + Total(soccpi_) = nelectron
        /\ \A h \in Irreps : doccpi_[h] + soccpi_[h] <= Dim(h)
        /\ (occ_calls >= 2 =>
               /\ Total(doccpi_) = Total(occ_previous.docc)
               /\ Total(soccpi_) = Total(occ_previous.socc))
C10_Witness ==
    /\ routine = "form_C"
    /\ occ_calls >= 3
    /\ nbeta_ > 0 /\ nalpha_ > nbeta_
    /\ doccpi_ # occ_previous.docc
    /\ soccpi_ # occ_previous.socc

(***************************************************************************)
(* The DIIS manager as save_fock constructs it:                            *)
(*   new DIISManager(max_diis_vectors_, "HF DIIS vector",                  *)
(*                   DIISManager::LargestError, DIISManager::OnDisk, psio_) *)
(* An entry of the subspace is [order, err]: the number of the addition    *)
(* that stored it and the size of its error vector.  While the subspace    *)
(* has room a new entry is appended; when it is full the new entry takes   *)
(* the place get_next_entry_id chooses by the removal policy.              *)
(***************************************************************************)
\* the removal policy save_fock passes to the constructor
RemovalPolicy == "LargestError"

Orders(subspace) == {subspace[n].order : n \in DOMAIN subspace}
NewestOrder(subspace) ==
    IF subspace = << >> THEN 0
    ELSE CHOOSE o \in Orders(subspace) : \A q \in Orders(subspace) : q <= o
OldestOrder(subspace) ==
    CHOOSE o \in Orders(subspace) : \A q \in Orders(subspace) : o <= q

\* DIISManager::get_next_entry_id: the position the next entry is stored at
get_next_entry_id(subspace, maxvec, policy) ==
    IF Len(subspace) < maxvec THEN Len(subspace) + 1
    ELSE IF policy = "OldestAdded"
    THEN CHOOSE n \in DOMAIN subspace : subspace[n].order = OldestOrder(subspace)
    ELSE \* LargestError: the first entry no other entry has a larger error than
         CHOOSE n \in DOMAIN subspace :
            /\ \A m \in DOMAIN subspace : subspace[m].err <= subspace[n].err
            /\ \A m \in 1 .. (n - 1) : subspace[m].err < subspace[n].err

\* DIISManager::add_entry
add_entry(subspace, maxvec, policy, err) ==
    LET id == get_next_entry_id(subspace, maxvec, policy)
        entry == [order |-> NewestOrder(subspace) + 1, err |-> err]
    IN  IF id > Len(subspace) THEN Append(subspace, entry)
        ELSE [subspace EXCEPT ![id] = entry]

(***************************************************************************)
(* SpecDiis: entries with errors 0 .. MaxErr are added, MaxAdds at most,   *)
(* to a manager of capacity 1 .. MaxVectors.                               *)
(***************************************************************************)
MaxVectors == 3
MaxErr == 2
MaxAdds == 5

InitDiis ==
    /\ NumIdle
    /\ algorithm = "PK" /\ scf_type_ = "PK" /\ memory_ = 0 /\ maxiter_ = 0
    /\ energy_threshold_ = 0 /\ diis_enabled_ = TRUE /\ min_diis_vectors_ = 0
    /\ max_diis_vectors_ \in 1 .. MaxVectors
    /\ eri = << >> /\ pk_ = Null /\ k_ = Null /\ pc = "idle" /\ iter = 0
    /\ converged = FALSE /\ diis_iter = FALSE /\ E_ = 0 /\ Eold_ = 0
    /\ stamp = InitialStamp /\ initialized_diis_manager_ = TRUE
    /\ diis_subspace = << >> /\ B_allocated = FALSE /\ iwl_reads = 0
    /\ pk_builds = 0 /\ trace = << >> /\ outfile = << >> /\ errfile = << >>
    /\ chkpt = << >> /\ ret = [returned |-> FALSE, value |-> 0]

AddEntry ==
    /\ initialized_diis_manager_
    /\ NewestOrder(diis_subspace) < MaxAdds
    /\ \E err \in 0 .. MaxErr :
          diis_subspace' = add_entry(diis_subspace, max_diis_vectors_, RemovalPolicy, err)
    /\ UNCHANGED << numvars, algorithm, scf_type_, memory_, maxiter_, energy_threshold_,
                    diis_enabled_, min_diis_vectors_, max_diis_vectors_, eri, pk_, k_,
                    pc, iter, converged, diis_iter, E_, Eold_, stamp,
                    initialized_diis_manager_, B_allocated, iwl_reads, pk_builds,
                    trace, outfile, errfile, chkpt, ret >>

NextDiis == AddEntry

SpecDiis == InitDiis /\ [][NextDiis]_allvars

MaxValue == 1

Records ==
    {<<i, j, k, l, 64 * v>> : i \in (1 - nso) .. (nso - 1), j \in 0 .. (nso - 1),
                               k \in 0 .. (nso - 1), l \in 0 .. (nso - 1),
                               v \in 1 .. MaxValue}

InitPK ==
    /\ NumIdle
    /\ algorithm = "PK" /\ scf_type_ = "PK" /\ memory_ = 0 /\ maxiter_ = 0
    /\ energy_threshold_ = 0 /\ diis_enabled_ = FALSE /\ min_diis_vectors_ = 0
    /\ max_diis_vectors_ = 0
    /\ \E rec \in Records : eri = << rec >>
    /\ pk_ = ZeroArray /\ k_ = ZeroArray /\ pc = "form_PK_record" /\ iter = 0
    /\ converged = FALSE /\ diis_iter = FALSE /\ E_ = 0 /\ Eold_ = 0
    /\ stamp = InitialStamp /\ initialized_diis_manager_ = FALSE
    /\ diis_subspace = << >> /\ B_allocated = FALSE /\ iwl_reads = 0
    /\ pk_builds = 0 /\ trace = << >> /\ outfile = << >> /\ errfile = << >>
    /\ chkpt = << >> /\ ret = [returned |-> FALSE, value |-> 0]

SortRecord ==
    /\ pc = "form_PK_record"
    /\ pc' = "form_PK_sorted"
    /\ LET r == DepositRecord([pk |-> pk_, k |-> k_], eri[1])
       IN  /\ pk_' = r.pk
           /\ k_' = r.k
    /\ UNCHANGED << numvars, algorithm, scf_type_, memory_, maxiter_, energy_threshold_,
                    diis_enabled_, min_diis_vectors_, max_diis_vectors_, eri, iter,
                    converged, diis_iter, E_, Eold_, stamp, initialized_diis_manager_,
                    diis_subspace, B_allocated, iwl_reads, pk_builds, trace, outfile,
                    errfile, chkpt, ret >>

NextPK == SortRecord

SpecPK == InitPK /\ [][NextPK]_allvars

(***************************************************************************)
(* Vocabulary of the claims about the deposits of one record: the orbitals *)
(* of the record, the entry of the arrays that belongs to a pairing        *)
(* (pq|rs) and the weight of an exchange deposit.                          *)
(***************************************************************************)
RecI == Abs(eri[1][1])
RecJ == eri[1][2]
RecK == eri[1][3]
RecL == eri[1][4]
RecValue == eri[1][5]
irrep(p) == so2symblk_[p]
Pair(p, q) == INDEX2(so2index_[p], so2index_[q]) + pk_symoffset_[irrep(p)]
Entry(p, q, r, t) == INDEX2(Pair(p, q), Pair(r, t))
ExchangeWeight(p, q, r, t) == IF p = q \/ r = t THEN Half(RecValue) ELSE Quarter(RecValue)

\* the arrays after the record, given which of the three deposits are made
ExpectedK(first, second) ==
    LET a == IF second
             THEN AddAt(ZeroArray, Entry(RecI, RecL, RecJ, RecK),
                        -ExchangeWeight(RecI, RecL, RecJ, RecK))
             ELSE ZeroArray
    IN  IF first
        THEN AddAt(a, Entry(RecI, RecK, RecJ, RecL), -ExchangeWeight(RecI, RecK, RecJ, RecL))
        ELSE a
ExpectedPK(coulomb, first, second) ==
    LET a == ExpectedK(first, second)
    IN  IF coulomb THEN AddAt(a, Entry(RecI, RecJ, RecK, RecL), RecValue) ELSE a

CoulombIrreps == irrep(RecI) = irrep(RecJ) /\ irrep(RecK) = irrep(RecL)
FirstSortIrreps == irrep(RecI) = irrep(RecK) /\ irrep(RecJ) = irrep(RecL)
SecondSortIrreps == irrep(RecI) = irrep(RecL) /\ irrep(RecJ) = irrep(RecK)

(***************************************************************************)
(* C20 (as claimed): a record deposits its value into pk_ for the pairing  *)
(* (ij|kl) exactly when irrep(i) = irrep(j) and irrep(k) = irrep(l), an    *)
(* exchange term for (ik|jl) into pk_ and k_ exactly when irrep(i) =       *)
(* irrep(k) and irrep(j) = irrep(l), and an exchange term for (il|jk)      *)
(* into pk_ and k_ exactly when irrep(i) = irrep(l) and irrep(j) =         *)
(* irrep(k); k_ receives no Coulomb term.                                  *)
(***************************************************************************)
C20_DepositsByIrrep ==
    pc = "form_PK_sorted" =>
        /\ pk_ = ExpectedPK(CoulombIrreps, FirstSortIrreps, SecondSortIrreps)
        /\ k_ = ExpectedK(FirstSortIrreps, SecondSortIrreps)

(***************************************************************************)
(* C20 (amended): as above, but the exchange term for (il|jk) is           *)
(* deposited exactly when the four orbitals are in one irrep, i # j and    *)
(* k # l.                                                                  *)
(***************************************************************************)
SecondSortTaken ==
    /\ CoulombIrreps /\ SecondSortIrreps
    /\ RecI # RecJ /\ RecK # RecL
C20_DepositsAmended ==
    pc = "form_PK_sorted" =>
        /\ pk_ = ExpectedPK(CoulombIrreps, FirstSortIrreps, SecondSortTaken)
        /\ k_ = ExpectedK(FirstSortIrreps, SecondSortTaken)
C20_Witness ==
    /\ pc = "form_PK_sorted"
    /\ SecondSortIrreps /\ ~SecondSortTaken
    /\ RecK # RecL /\ RecI = RecJ /\ RecI # RecK
    /\ eri[1][1] < 0
    /\ pk_ # k_ /\ k_ # ZeroArray

(***************************************************************************)
(* C23: of the deposits a record makes, the Coulomb term goes into pk_     *)
(* alone with the whole value, and each exchange term is taken from pk_    *)
(* and from k_ with the same amount: a quarter of the value, or a half of  *)
(* it when one of the two pairs of the exchange pairing has equal          *)
(* orbitals ((i,k) or (j,l) for (ik|jl), (i,l) or (j,k) for (il|jk)).      *)
(* Stated in quarters of the value: k_ holds -1 or -2 quarters for each    *)
(* exchange term, and pk_ - k_ is the Coulomb term.                        *)
(***************************************************************************)
Quarters(p, q, r, t) == IF p = q \/ r = t THEN 2 ELSE 1
FirstSortQuarters(e) ==
    IF FirstSortIrreps /\ e = Entry(RecI, RecK, RecJ, RecL)
    THEN Quarters(RecI, RecK, RecJ, RecL) ELSE 0
SecondSortQuarters(e) ==
    IF SecondSortTaken /\ e = Entry(RecI, RecL, RecJ, RecK)
    THEN Quarters(RecI, RecL, RecJ, RecK) ELSE 0
C23_ExchangeWeights ==
    pc = "form_PK_sorted" =>
        \A e \in DOMAIN pk_ :
            /\ pk_[e] - k_[e] =
                  (IF CoulombIrreps /\ e = Entry(RecI, RecJ, RecK, RecL)
                   THEN RecValue ELSE 0)
            /\ -4 * k_[e] = RecValue * (FirstSortQuarters(e) + SecondSortQuarters(e))
C23_Witness ==
    /\ pc = "form_PK_sorted"
    /\ CoulombIrreps /\ FirstSortIrreps /\ SecondSortTaken
    /\ RecI = RecL /\ RecJ # RecK
    /\ \E e \in DOMAIN k_ : -4 * k_[e] = RecValue
    /\ \E e \in DOMAIN k_ : -4 * k_[e] = 2 * RecValue

(***************************************************************************)
(* ROHF::form_G_from_PK.  The densities are packed into vectors over the   *)
(* pairs (h, p, q), q <= p, numbered in the order of the loops; the sweep  *)
(* over pq and rs <= pq adds every element of pk_ and k_ to the            *)
(* accumulator of pq (Gc_pq, Go_pq) and to the one of rs (Gc_rs, Go_rs);   *)
(* the vectors are unpacked with the factor 2.                             *)
(***************************************************************************)
Pairs == 0 .. (pk_pairs_ - 1)
PairIndex(h, p, q) == INDEX2(p, q) + pk_symoffset_[h]
PairPosition(ij) == CHOOSE t \in Positions : PairIndex(t[1], t[2], t[3]) = ij

\* mutant: the densities are packed as they are
PackedDensityPlain(D) ==
    [ij \in Pairs |->
        LET t == PairPosition(ij)
        IN  D[t[1]][t[2]][t[3]]]

\* Dc_vector, Do_vector
PackedDensity(D) ==
    [ij \in Pairs |->
        LET t == PairPosition(ij)
        IN  IF t[2] # t[3] THEN 2 * D[t[1]][t[2]][t[3]] ELSE D[t[1]][t[2]][t[3]]]

\* what one element of pk_ adds to an accumulator of Gc, of Go
GcElement(pk, k, Dc, Do, e, y) == pk[e] * Dc[y] + Half(pk[e] * Do[y])
GoElement(pk, k, Dc, Do, e, y) == Half(pk[e] * Dc[y]) + Quarter((pk[e] + k[e]) * Do[y])

\* Gc_vector: for (pq ...) for (rs = 0; rs <= pq; ++rs)
GcSweep(pk, k, Dc, Do) ==
    [x \in Pairs |->
        SumRange([y \in Pairs |->
                     IF y <= x THEN GcElement(pk, k, Dc, Do, INDEX2(x, y), y) ELSE 0],
                 0, pk_pairs_ - 1)
        + SumRange([y \in Pairs |->
                       IF y >= x THEN GcElement(pk, k, Dc, Do, INDEX2(y, x), y) ELSE 0],
                   0, pk_pairs_ - 1)]

\* Go_vector
GoSweep(pk, k, Dc, Do) ==
    [x \in Pairs |->
        SumRange([y \in Pairs |->
                     IF y <= x THEN GoElement(pk, k, Dc, Do, INDEX2(x, y), y) ELSE 0],
                 0, pk_pairs_ - 1)
        + SumRange([y \in Pairs |->
                       IF y >= x THEN GoElement(pk, k, Dc, Do, INDEX2(y, x), y) ELSE 0],
                   0, pk_pairs_ - 1)]

\* Convert G to a matrix
UnpackG(vec) ==
    [h \in Irreps |-> [p \in Rows(h) |-> [q \in Rows(h) |->
        2 * vec[PairIndex(h, Max(p, q), Min(p, q))]]]]

form_G_from_PK(pk, k, Dc, Do) ==
    LET Dc_vector == PackedDensity(Dc)
        Do_vector == PackedDensity(Do)
    IN  [Gc |-> UnpackG(GcSweep(pk, k, Dc_vector, Do_vector)),
         Go |-> UnpackG(GoSweep(pk, k, Dc_vector, Do_vector))]

(***************************************************************************)
(* SpecG: the statements of compute_energy that build the supermatrices,   *)
(* then the G build of the first pass, for the integral lists and the      *)
(* symmetric densities below.                                              *)
(***************************************************************************)
\* one record of the integral file, or all of them
IntegralLists == {<< IntegralFile[n] >> : n \in DOMAIN IntegralFile} \cup {IntegralFile}
\* symmetric densities with entries in 0 .. MaxG: Dc_ with at most two
\* independent entries that are not zero, Do_ with at most one
DcMatrices == {SymmetricMatrix(f) : f \in SparseEntries({0, 1, 2})}
DoMatrices == {SymmetricMatrix(f) : f \in SparseEntries({0, 1})}

InitG ==
    /\ algorithm = "PK" /\ memory_ = 464 /\ maxiter_ = 0
    /\ energy_threshold_ = 0 /\ diis_enabled_ = FALSE /\ min_diis_vectors_ = 0
    /\ max_diis_vectors_ = 0
    /\ eri \in IntegralLists
    /\ LET c == common_init(algorithm, memory_, diis_enabled_)
       IN  /\ scf_type_ = c.scf_type
           /\ pk_ = c.pk
           /\ k_ = c.k
           /\ outfile = c.out
    /\ pc = "integrals" /\ iter = 0
    /\ converged = FALSE /\ diis_iter = FALSE /\ E_ = 0 /\ Eold_ = 0
    /\ stamp = InitialStamp /\ initialized_diis_manager_ = FALSE
    /\ diis_subspace = << >> /\ B_allocated = FALSE /\ iwl_reads = 0
    /\ pk_builds = 0 /\ trace = << >> /\ errfile = << >>
    /\ chkpt = << >> /\ ret = [returned |-> FALSE, value |-> 0]
    /\ H_ = ZeroMatrix /\ Gc_ = ZeroMatrix /\ Go_ = ZeroMatrix
    /\ C_ = ZeroMatrix /\ Fc_ = ZeroMatrix /\ Fo_ = ZeroMatrix
    /\ Feff_ = ZeroMatrix
    /\ Dc_ \in DcMatrices /\ Do_ \in DoMatrices
    /\ doccpi_ = ZeroCounts /\ soccpi_ = ZeroCounts
    /\ epsilon_ = ZeroVector
    /\ nalpha_ = 0 /\ nbeta_ = 0 /\ nelectron = 0
    /\ occ_calls = 0
    /\ occ_previous = [docc |-> ZeroCounts, socc |-> ZeroCounts]
    /\ routine = "ready"

\* the G build of the first pass, from the supermatrices as the two calls
\* of form_PK left them
FormGFromPK ==
    /\ pc = "form_Shalf"
    /\ routine = "ready"
    /\ routine' = "form_G_from_PK"
    /\ LET g == form_G_from_PK(pk_, k_, Dc_, Do_)
       IN  /\ Gc_' = g.Gc
           /\ Go_' = g.Go
    /\ UNCHANGED << vars, ovars, H_, Dc_, Do_, C_, Fc_, Fo_, Feff_ >>

NextG ==
    \/ FormIntegrals
    \/ FormIntegralsAgain
    \/ FormGFromPK

SpecG == InitG /\ [][NextG]_allvars

(***************************************************************************)
(* The G matrices by summation over the four indices.  Tensor is the       *)
(* integral (pq|rs) of the list, found through the 8-fold symmetry; with   *)
(* the densities D of the solver (no factor 2 for double occupation)       *)
(*   Gc_pq = sum_rs (Dc_rs + Do_rs / 2) (2 (pq|rs) - (pr|qs))              *)
(*   Go_pq = sum_rs  Dc_rs / 2 (2 (pq|rs) - (pr|qs))                       *)
(*                 + Do_rs / 2 ((pq|rs) - (pr|qs))                         *)
(* The operators below are twice these sums.                               *)
(***************************************************************************)
Canonical(p, q, r, t) ==
    LET a == Max(p, q)
        b == Min(p, q)
        c == Max(r, t)
        d == Min(r, t)
    IN  IF INDEX2(a, b) >= INDEX2(c, d) THEN << a, b, c, d >> ELSE << c, d, a, b >>
Tensor(file, p, q, r, t) ==
    SumRange([n \in DOMAIN file |->
                 IF << Abs(file[n][1]), file[n][2], file[n][3], file[n][4] >>
                        = Canonical(p, q, r, t)
                 THEN file[n][5] ELSE 0],
             1, Len(file))
Orbital(h, p) == p + (IF h = 0 THEN 0 ELSE Dim(0))
DensityOf(D, r, t) ==
    IF so2symblk_[r] = so2symblk_[t]
    THEN D[so2symblk_[r]][so2index_[r]][so2index_[t]] ELSE 0
SumOverOrbitals(f) ==
    SumRange([r \in 0 .. (nso - 1) |->
                 SumRange([t \in 0 .. (nso - 1) |-> f[<< r, t >>]], 0, nso - 1)],
             0, nso - 1)
TwiceGcDirect(file, Dc, Do) ==
    [h \in Irreps |-> [p \in Rows(h) |-> [q \in Rows(h) |->
        SumOverOrbitals([x \in (0 .. (nso - 1)) \X (0 .. (nso - 1)) |->
            (2 * DensityOf(Dc, x[1], x[2]) + DensityOf(Do, x[1], x[2]))
            * (2 * Tensor(file, Orbital(h, p), Orbital(h, q), x[1], x[2])
               - Tensor(file, Orbital(h, p), x[1], Orbital(h, q), x[2]))])]]]
TwiceGoDirect(file, Dc, Do) ==
    [h \in Irreps |-> [p \in Rows(h) |-> [q \in Rows(h) |->
        SumOverOrbitals([x \in (0 .. (nso - 1)) \X (0 .. (nso - 1)) |->
            DensityOf(Dc, x[1], x[2])
            * (2 * Tensor(file, Orbital(h, p), Orbital(h, q), x[1], x[2])
               - Tensor(file, Orbital(h, p), x[1], Orbital(h, q), x[2]))
            + DensityOf(Do, x[1], x[2])
              * (Tensor(file, Orbital(h, p), Orbital(h, q), x[1], x[2])
                 - Tensor(file, Orbital(h, p), x[1], Orbital(h, q), x[2]))])]]]
Twice(M) == [h \in Irreps |-> [p \in Rows(h) |-> [q \in Rows(h) |-> 2 * M[h][p][q]]]]

(***************************************************************************)
(* C18 (as claimed): the Gc_ and Go_ the first pass gets from pk_ and k_   *)
(* are the Gc and Go of the summation over the four indices of the same    *)
(* integral list, for every list and all symmetric densities.              *)
(***************************************************************************)
C18_GFromPKIsDirect ==
    routine = "form_G_from_PK" =>
        /\ Twice(Gc_) = TwiceGcDirect(eri, Dc_, Do_)
        /\ Twice(Go_) = TwiceGoDirect(eri, Dc_, Do_)

(***************************************************************************)
(* C24: form_G_from_PK on the supermatrices it is given.  With the         *)
(* densities packed into pair vectors, an entry with p # q doubled, the    *)
(* sweep gives for every pair pq                                           *)
(*   Gc[pq] = sum over all pairs rs of PK[pq,rs] (Dc[rs] + Do[rs] / 2)     *)
(*   Go[pq] = sum over all pairs rs of                                     *)
(*              PK[pq,rs] Dc[rs] / 2 + (PK[pq,rs] + K[pq,rs]) Do[rs] / 4   *)
(* with the term rs = pq taken twice; the matrices Gc_ and Go_ are         *)
(* symmetric and hold twice these sums.  Stated without the divisions:     *)
(* Gc_ is the sum of PK (2 Dc + Do), and twice Go_ is the sum of           *)
(* 2 PK Dc + (PK + K) Do.                                                  *)
(***************************************************************************)
DoubledOffDiagonal(D) ==
    [rs \in Pairs |->
        LET t == PairPosition(rs)
        IN  (IF t[2] = t[3] THEN 1 ELSE 2) * D[t[1]][t[2]][t[3]]]
Times(pq, rs) == IF rs = pq THEN 2 ELSE 1
SumOverPairs(f) == SumRange(f, 0, pk_pairs_ - 1)
ClaimedGc(pq) ==
    LET Dc == DoubledOffDiagonal(Dc_)
        Do == DoubledOffDiagonal(Do_)
    IN  SumOverPairs([rs \in Pairs |->
            Times(pq, rs) * pk_[INDEX2(pq, rs)] * (2 * Dc[rs] + Do[rs])])
ClaimedTwiceGo(pq) ==
    LET Dc == DoubledOffDiagonal(Dc_)
        Do == DoubledOffDiagonal(Do_)
    IN  SumOverPairs([rs \in Pairs |->
            Times(pq, rs) * (2 * pk_[INDEX2(pq, rs)] * Dc[rs]
                             + (pk_[INDEX2(pq, rs)] + k_[INDEX2(pq, rs)]) * Do[rs])])
C24_SweepSums ==
    routine = "form_G_from_PK" =>
        /\ \A t \in Positions :
              /\ Gc_[t[1]][t[2]][t[3]] = ClaimedGc(PairIndex(t[1], t[2], t[3]))
              /\ 2 * Go_[t[1]][t[2]][t[3]] = ClaimedTwiceGo(PairIndex(t[1], t[2], t[3]))
        /\ IsSymmetric(Gc_) /\ IsSymmetric(Go_)
C24_Witness ==
    /\ routine = "form_G_from_PK"
    /\ eri = IntegralFile
    /\ Dc_[0][1][0] # 0 /\ Do_[0][1][0] # 0
    /\ pk_[INDEX2(PairIndex(0, 1, 0), PairIndex(0, 1, 0))] # 0
    /\ Gc_[0][1][0] # 0 /\ Go_[0][1][0] # 0 /\ Gc_[0][1][0] # 2 * Go_[0][1][0]

====
